---- MODULE Spec2Model ----
(***************************************************************************)
(* Orbit lifecycle orchestrator of carlknutson/orbit: launch and destroy   *)
(* (src/orbit/session.py) over the State Store (src/orbit/state.py), the   *)
(* git worktree driver (src/orbit/worktree.py) and the tmux session driver *)
(* (src/orbit/tmux.py).                                                    *)
(*                                                                         *)
(* Names (branches, slugs, orbit names) are sequences of one-character     *)
(* strings so that slugify and the '-n' suffix are computed character by   *)
(* character.  An optional argument is <<>> (None) or <<v>>.               *)
(***************************************************************************)
EXTENDS Integers, Sequences, FiniteSets, TLC

\* stateFile: the orbits in ~/.orbit/state.json (name -> Orbit record)
\* state:     the in-memory State of the latest launch/destroy invocation
\* sessions:  the names of the live tmux sessions
\* worktrees: the worktree directories on disk (path -> branch checked out)
\* last:      what the latest step did
\* out:       what the latest command printed or returned
\* procs:     the CLI invocations in flight, each with its own State
\* pending:   how many trailing tokens of the document in stateFile a
\*            save_state in progress has not yet written to the file
VARIABLES stateFile, state, sessions, worktrees, last, out, procs, pending

vars == <<stateFile, state, sessions, worktrees, last, out, procs, pending>>

(***************************************************************************)
(* Bounds and inputs                                                       *)
(***************************************************************************)
\* launch is not offered once State holds this many orbits
MaxOrbits == 3

\* slug[:40], src/orbit/worktree.py:17
SlugMaxLen == 40

Feat == <<"F", "e", "a", "t">>

feat == <<"f", "e", "a", "t">>

demo == <<"d", "e", "m", "o">>

\* the branch checked out in the planet's primary checkout (cwd)
MainBranch == <<"m", "a", "i", "n">>

\* branch arguments given to launch
Branches == {Feat}

\* --name arguments given to launch
ExplicitNames == {demo}

PlanetParent == "/home/u"

PlanetDir == "repo"

(***************************************************************************)
(* slugify, src/orbit/worktree.py:11-17                                    *)
(***************************************************************************)
UpperAlpha == <<"A","B","C","D","E","F","G","H","I","J","K","L","M",
                "N","O","P","Q","R","S","T","U","V","W","X","Y","Z">>

LowerAlpha == <<"a","b","c","d","e","f","g","h","i","j","k","l","m",
                "n","o","p","q","r","s","t","u","v","w","x","y","z">>

DigitChars == <<"0","1","2","3","4","5","6","7","8","9">>

Range(s) == {s[i] : i \in DOMAIN s}

\* str.lower() on the upper-case letters
LowerMap ==
    [c \in Range(UpperAlpha) |->
        LowerAlpha[CHOOSE i \in DOMAIN UpperAlpha : UpperAlpha[i] = c]]

\* str.lower() on one character
LowerChar(c) == IF c \in DOMAIN LowerMap THEN LowerMap[c] ELSE c

\* [a-z0-9-]
SlugChars == Range(LowerAlpha) \cup Range(DigitChars) \cup {"-"}

IsSlugChar(c) == c \in SlugChars

\* lines 12-14: lower(), '/' -> '-', [^a-z0-9-] -> '-'
MapChars(s) ==
    [i \in DOMAIN s |->
        LET c == LowerChar(s[i])
        IN  IF c = "/" THEN "-" ELSE IF IsSlugChar(c) THEN c ELSE "-"]

\* line 15: re.sub(r"-+", "-", slug)
RECURSIVE CollapseHyphens(_)
CollapseHyphens(s) ==
    IF Len(s) < 2 THEN s
    ELSE IF s[1] = "-" /\ s[2] = "-" THEN CollapseHyphens(Tail(s))
    ELSE <<s[1]>> \o CollapseHyphens(Tail(s))

\* line 16: slug.strip("-")
RECURSIVE StripLeft(_)
StripLeft(s) ==
    IF s # <<>> /\ s[1] = "-" THEN StripLeft(Tail(s)) ELSE s

RECURSIVE StripRight(_)
StripRight(s) ==
    IF s # <<>> /\ s[Len(s)] = "-" THEN StripRight(SubSeq(s, 1, Len(s) - 1)) ELSE s

StripHyphens(s) == StripRight(StripLeft(s))

\* line 17: slug[:40]
Truncate(s) == IF Len(s) > SlugMaxLen THEN SubSeq(s, 1, SlugMaxLen) ELSE s

slugify(branch) == Truncate(StripHyphens(CollapseHyphens(MapChars(branch))))

(***************************************************************************)
(* Name resolution of launch, src/orbit/session.py:32-54                   *)
(***************************************************************************)
\* str(n) of the f-string
RECURSIVE DecStr(_)
DecStr(n) ==
    IF n < 10 THEN <<DigitChars[n + 1]>>
    ELSE DecStr(n \div 10) \o <<DigitChars[(n % 10) + 1]>>

\* f"{branch_slug}-{n}"
Numbered(slug, n) == slug \o <<"-">> \o DecStr(n)

\* lines 51-53: n = 2; while state.get(f"{slug}-{n}") is not None: n += 1
RECURSIVE FirstFree(_, _, _)
FirstFree(st, slug, n) ==
    IF Numbered(slug, n) \in DOMAIN st THEN FirstFree(st, slug, n + 1) ELSE n

\* DefaultName with the numbering started at 1 instead of 2
DefaultName_FromOne(st, slug) ==
    IF slug \in DOMAIN st THEN Numbered(slug, FirstFree(st, slug, 1)) ELSE slug

\* lines 49-54: the unnamed path
DefaultName(st, slug) ==
    IF slug \in DOMAIN st THEN Numbered(slug, FirstFree(st, slug, 2)) ELSE slug

\* lines 32-54: the orbit name launch works with
OrbitName(st, nameArg, branch) ==
    IF nameArg # <<>> THEN nameArg[1] ELSE DefaultName(st, slugify(branch))

\* Collision that takes a recorded name without a live session for free
Collision_LiveOnly(st, nameArg, live) ==
    IF nameArg # <<>> /\ nameArg[1] \in DOMAIN st /\ nameArg[1] \in live
    THEN "already_exists"
    ELSE "free"

\* lines 34-47: an explicit name that State already records is rejected
Collision(st, nameArg, live) ==
    IF nameArg # <<>> /\ nameArg[1] \in DOMAIN st
    THEN IF nameArg[1] \in live THEN "already_exists" ELSE "stale"
    ELSE "free"

(***************************************************************************)
(* Worktree location and the Orbit record, src/orbit/session.py:56-58,     *)
(* 102-108                                                                 *)
(***************************************************************************)
\* Planet.slug, src/orbit/models.py:29-31
PlanetSlug == PlanetDir

\* planet_dir.parent / f"{planet_dir.name}.wt" / orbit_name: pathlib's "/"
\* drops what stands to the left of an absolute operand
WorktreePath(name) ==
    IF name # <<>> /\ name[1] = "/" THEN <<name>>
    ELSE <<PlanetParent, PlanetDir \o ".wt", name>>

\* Orbit that records the slug in place of the branch
Orbit_SlugBranch(name, branch) ==
    [name |-> name, planet |-> PlanetSlug, branch |-> slugify(branch),
     worktree |-> WorktreePath(name), tmux_session |-> name, ports |-> <<>>]

\* lines 102-108: no ports argument, so ports is the default {} (models.py:40)
Orbit(name, branch) ==
    [name |-> name, planet |-> PlanetSlug, branch |-> branch,
     worktree |-> WorktreePath(name), tmux_session |-> name, ports |-> <<>>]

(***************************************************************************)
(* State, src/orbit/state.py:14-32                                         *)
(***************************************************************************)
EmptyState == [n \in {} |-> Orbit(n, n)]

\* State.add that starts from an empty mapping
StateAdd_Alone(st, orbit) == [n \in {orbit.name} |-> orbit]

\* State.add: self.orbits[orbit.name] = orbit
StateAdd(st, orbit) ==
    [n \in DOMAIN st \cup {orbit.name} |-> IF n = orbit.name THEN orbit ELSE st[n]]

\* State.remove: self.orbits.pop(name, None)
StateRemove(st, name) == [n \in DOMAIN st \ {name} |-> st[n]]

(***************************************************************************)
(* The external tools as launch and destroy see them                       *)
(***************************************************************************)
\* tmux.session_exists, src/orbit/tmux.py:16-21
session_exists(name) == name \in sessions

\* worktree_path.exists(), src/orbit/session.py:133
PathExists(path) == path \in DOMAIN worktrees

\* branches git holds checked out: the primary checkout's and the worktrees'
CheckedOut == {MainBranch} \cup {worktrees[p] : p \in DOMAIN worktrees}

\* git worktree add refuses an existing path and a branch that is checked
\* out elsewhere, src/orbit/worktree.py:151-161
GitRefusesAdd(path, branch) == PathExists(path) \/ branch \in CheckedOut

\* tmux new-session refuses a duplicate session name, src/orbit/tmux.py:24-31
TmuxRefusesNew(name) == session_exists(name)

(***************************************************************************)
(* launch, src/orbit/session.py:12-117                                     *)
(***************************************************************************)
\* the steps of launch that can raise, in program order, and "done"
StepIndex ==
    [detect_planet |-> 1, detect_branch |-> 2, choose_remote |-> 3,
     resolve_name |-> 4, create_worktree |-> 5, sync_untracked |-> 6,
     new_session |-> 7, set_option |-> 8, set_environment |-> 9,
     setup_windows |-> 10, save_state |-> 11, attach |-> 12, done |-> 13]

\* launch got past the given step
Passed(stop, step) == StepIndex[stop] > StepIndex[step]

\* the external failure injected into one launch
LaunchFailPoints ==
    {"none", "detect_planet", "detect_branch", "choose_remote",
     "create_worktree", "sync_untracked", "new_session", "set_option",
     "set_environment", "setup_windows", "attach"}

\* Planet.sync_untracked as launch reads it (line 78): "None" is the default
SyncUntracked == "None"

\* lines 78-81: None -> [".*"]; the mirroring runs unless the list is empty
SyncRuns == SyncUntracked # "empty"

\* lines 23-24: branch = worktree.detect_branch(cwd) when none was given
LaunchBranch(branchArg) == IF branchArg = <<>> THEN MainBranch ELSE branchArg[1]

\* LaunchStop that takes a name for taken when a session of it is live
LaunchStop_LiveNameTaken(st, branchArg, nameArg, branch, name, failAt) ==
    IF failAt = "detect_planet" THEN "detect_planet"
    ELSE IF branchArg = <<>> /\ failAt = "detect_branch" THEN "detect_branch"
    ELSE IF failAt = "choose_remote" THEN "choose_remote"
    ELSE IF Collision(st, nameArg, sessions) # "free" \/ session_exists(name)
         THEN "resolve_name"
    ELSE IF failAt = "create_worktree" \/ GitRefusesAdd(WorktreePath(name), branch)
         THEN "create_worktree"
    ELSE IF SyncRuns /\ failAt = "sync_untracked" THEN "sync_untracked"
    ELSE IF failAt = "new_session" \/ TmuxRefusesNew(name) THEN "new_session"
    ELSE IF failAt \in {"set_option", "set_environment", "setup_windows"} THEN failAt
    ELSE IF failAt = "attach" THEN "attach"
    ELSE "done"

\* the step at which launch raises, or "done"
LaunchStop(st, branchArg, nameArg, branch, name, failAt) ==
    IF failAt = "detect_planet" THEN "detect_planet"
    ELSE IF branchArg = <<>> /\ failAt = "detect_branch" THEN "detect_branch"
    ELSE IF failAt = "choose_remote" THEN "choose_remote"
    ELSE IF Collision(st, nameArg, sessions) # "free" THEN "resolve_name"
    ELSE IF failAt = "create_worktree" \/ GitRefusesAdd(WorktreePath(name), branch)
         THEN "create_worktree"
    ELSE IF SyncRuns /\ failAt = "sync_untracked" THEN "sync_untracked"
    ELSE IF failAt = "new_session" \/ TmuxRefusesNew(name) THEN "new_session"
    ELSE IF failAt \in {"set_option", "set_environment", "setup_windows"} THEN failAt
    ELSE IF failAt = "attach" THEN "attach"
    ELSE "done"

\* how launch ends: it returns, rejects the explicit name, or raises
LaunchOutcome(st, nameArg, stop) ==
    IF stop = "done" THEN "ok"
    ELSE IF stop = "resolve_name" THEN Collision(st, nameArg, sessions)
    ELSE "error"

\* WorktreeCreated with the worktree removed again when a later step fails
WorktreeCreated_RolledBack(stop) == Passed(stop, "setup_windows")

\* line 76: the worktree is on disk once create_worktree has returned
WorktreeCreated(stop) == Passed(stop, "create_worktree")

\* SessionCreated with new_session moved up in front of create_worktree
SessionCreated_First(stop) == Passed(stop, "resolve_name")

\* line 90: the session is live once new_session has returned
SessionCreated(stop) == Passed(stop, "new_session")

\* Persisted with state.add and save_state moved up behind create_worktree
Persisted_Early(stop) == Passed(stop, "create_worktree")

\* Persisted with state.add and save_state moved behind the attach
Persisted_AfterAttach(stop) == Passed(stop, "attach")

\* lines 109-110: state.add and save_state run once setup_windows has returned
Persisted(stop) == Passed(stop, "setup_windows")

\* the effects of a launch that stops at the given step
LaunchEffects(st, nameArg, branch, name, stop, outcome) ==
    /\ worktrees' = IF WorktreeCreated(stop)
                    THEN [p \in DOMAIN worktrees \cup {WorktreePath(name)} |->
                             IF p = WorktreePath(name) THEN branch ELSE worktrees[p]]
                    ELSE worktrees
    /\ sessions' = IF SessionCreated(stop) THEN sessions \cup {name} ELSE sessions
    /\ state' = IF Persisted(stop) THEN StateAdd(st, Orbit(name, branch)) ELSE st
    /\ stateFile' = IF Persisted(stop) THEN state' ELSE stateFile
    /\ last' = [op |-> "launch",
                nameArg |-> nameArg,
                branch |-> IF Passed(stop, "detect_branch") THEN <<branch>> ELSE <<>>,
                name |-> IF Passed(stop, "choose_remote") THEN <<name>> ELSE <<>>,
                outcome |-> outcome,
                step |-> stop,
                session |-> IF SessionCreated(stop) THEN "created" ELSE "none",
                worktree |-> IF WorktreeCreated(stop) THEN "created" ELSE "none",
                confirm |-> "none",
                saved |-> Persisted(stop)]
    /\ out' = <<>>
    /\ UNCHANGED <<procs, pending>>

\* launch with the branch and the orbit name it resolves (lines 23-54)
LaunchNamed(st, branchArg, nameArg, branch, name) ==
    \E failAt \in LaunchFailPoints :
        /\ failAt \in {"none", LaunchStop(st, branchArg, nameArg, branch, name, failAt)}
        /\ LaunchEffects(st, nameArg, branch, name,
                         LaunchStop(st, branchArg, nameArg, branch, name, failAt),
                         LaunchOutcome(st, nameArg,
                             LaunchStop(st, branchArg, nameArg, branch, name, failAt)))

\* orbit launch [branch] [--name name]: State is loaded from the state file
\* (src/orbit/cli.py:39) and handed to launch
Launch(branchArg, nameArg) ==
    /\ Cardinality(DOMAIN stateFile) < MaxOrbits
    /\ LaunchNamed(stateFile, branchArg, nameArg, LaunchBranch(branchArg),
                   OrbitName(stateFile, nameArg, LaunchBranch(branchArg)))

(***************************************************************************)
(* destroy, src/orbit/session.py:120-149                                   *)
(***************************************************************************)
\* what tmux kill-session does when destroy calls it: it kills the session,
\* or the session has gone since session_exists, or the command fails
KillResults == {"ok", "gone", "error"}

\* has_uncommitted_changes and the answer to click.confirm, lines 134-138
ChangesResults == {"clean", "confirmed", "refused"}

\* which command of the worktree removal fails with WorktreeError
RemoveFailPoints == {"none", "get_main_repo_path", "remove_worktree"}

\* DestroyKills without the session_exists check
DestroyKills_Unchecked(known, orbit_name) == known

\* DestroyKills with the kill ahead of the lookup
DestroyKills_BeforeLookup(known, orbit_name) == session_exists(orbit_name)

\* lines 125-129: the kill is tried for a recorded orbit whose session exists
DestroyKills(known, orbit_name) == known /\ session_exists(orbit_name)

\* line 130: kill_session raises TmuxError when tmux kill-session fails
KillRaises(live, killRes) == live /\ killRes # "ok"

\* DestroyAborted with the answer to the confirmation ignored
DestroyAborted_Never(exists, changes) == FALSE

\* lines 134-138: click.confirm(abort=True) raises Abort on refusal
DestroyAborted(exists, changes) == exists /\ changes = "refused"

\* DestroyCompletes with the WorktreeError of the removal left uncaught
DestroyCompletes_FatalRemoval(known, killErr, aborted, wtFail) ==
    known /\ ~killErr /\ ~aborted /\ wtFail = "none"

\* lines 139-148: the WorktreeError of the removal is caught, so destroy goes
\* on to state.remove and save_state unless it has raised before
DestroyCompletes(known, killErr, aborted, wtFail) == known /\ ~killErr /\ ~aborted

\* destroy with the confirmation asked before the session is killed
Destroy_ConfirmFirst(orbit_name, killRes, changes, wtFail) ==
    LET st      == stateFile           \* load_state, src/orbit/cli.py:100
        known   == orbit_name \in DOMAIN st
        path    == IF known THEN st[orbit_name].worktree ELSE <<>>
        exists  == known /\ PathExists(path)
        aborted == DestroyAborted(exists, changes)
        live    == DestroyKills(known, orbit_name) /\ ~aborted
        killErr == KillRaises(live, killRes)
        remove  == exists /\ ~aborted /\ ~killErr
        removed == remove /\ wtFail = "none"
        done    == DestroyCompletes(known, killErr, aborted, wtFail)
    IN  /\ ~live => killRes = "ok"
        /\ ~exists => changes = "clean"
        /\ ~remove => wtFail = "none"
        /\ sessions' = IF live /\ killRes \in {"ok", "gone"}
                       THEN sessions \ {orbit_name} ELSE sessions
        /\ worktrees' = IF removed
                        THEN [p \in DOMAIN worktrees \ {path} |-> worktrees[p]]
                        ELSE worktrees
        /\ state' = IF done THEN StateRemove(st, orbit_name) ELSE st
        /\ stateFile' = IF done THEN state' ELSE stateFile
        /\ last' = [op |-> "destroy",
                    nameArg |-> <<orbit_name>>,
                    branch |-> <<>>,
                    name |-> <<orbit_name>>,
                    outcome |-> IF ~known THEN "not_found"
                                ELSE IF killErr THEN "error"
                                ELSE IF aborted THEN "aborted"
                                ELSE IF done THEN "ok" ELSE "error",
                    step |-> IF ~known THEN "lookup"
                             ELSE IF killErr THEN "kill_session"
                             ELSE IF aborted THEN "confirm"
                             ELSE IF done THEN "done" ELSE "remove_worktree",
                    session |-> IF ~live THEN "none"
                                ELSE IF killErr THEN "kill_failed" ELSE "killed",
                    worktree |-> IF ~known \/ killErr \/ aborted THEN "none"
                                 ELSE IF ~exists THEN "missing"
                                 ELSE IF removed THEN "removed"
                                 ELSE wtFail,
                    confirm |-> IF exists THEN changes ELSE "none",
                    saved |-> done]
        /\ out' = <<>>
        /\ UNCHANGED <<procs, pending>>

Destroy(orbit_name, killRes, changes, wtFail) ==
    LET st      == stateFile           \* load_state, src/orbit/cli.py:100
        known   == orbit_name \in DOMAIN st
        live    == DestroyKills(known, orbit_name)
        killErr == KillRaises(live, killRes)
        path    == IF known THEN st[orbit_name].worktree ELSE <<>>
        exists  == known /\ ~killErr /\ PathExists(path)
        aborted == DestroyAborted(exists, changes)
        remove  == exists /\ ~aborted
        removed == remove /\ wtFail = "none"
        done    == DestroyCompletes(known, killErr, aborted, wtFail)
    IN  /\ ~live => killRes = "ok"
        /\ ~exists => changes = "clean"
        /\ ~remove => wtFail = "none"
        /\ sessions' = IF live /\ killRes \in {"ok", "gone"}
                       THEN sessions \ {orbit_name} ELSE sessions
        /\ worktrees' = IF removed
                        THEN [p \in DOMAIN worktrees \ {path} |-> worktrees[p]]
                        ELSE worktrees
        /\ state' = IF done THEN StateRemove(st, orbit_name) ELSE st
        /\ stateFile' = IF done THEN state' ELSE stateFile
        /\ last' = [op |-> "destroy",
                    nameArg |-> <<orbit_name>>,
                    branch |-> <<>>,
                    name |-> <<orbit_name>>,
                    outcome |-> IF ~known THEN "not_found"
                                ELSE IF killErr THEN "error"
                                ELSE IF aborted THEN "aborted"
                                ELSE IF done THEN "ok" ELSE "error",
                    step |-> IF ~known THEN "lookup"
                             ELSE IF killErr THEN "kill_session"
                             ELSE IF aborted THEN "confirm"
                             ELSE IF done THEN "done" ELSE "remove_worktree",
                    session |-> IF ~live THEN "none"
                                ELSE IF killErr THEN "kill_failed" ELSE "killed",
                    worktree |-> IF ~known \/ killErr \/ aborted THEN "none"
                                 ELSE IF ~exists THEN "missing"
                                 ELSE IF removed THEN "removed"
                                 ELSE wtFail,
                    confirm |-> IF exists THEN changes ELSE "none",
                    saved |-> done]
        /\ out' = <<>>
        /\ UNCHANGED <<procs, pending>>

(***************************************************************************)
(* What happens to sessions and worktrees outside the tool                 *)
(***************************************************************************)
External(what) ==
    [op |-> "external", nameArg |-> <<>>, branch |-> <<>>, name |-> <<>>,
     outcome |-> what, step |-> "done", session |-> "none", worktree |-> "none",
     confirm |-> "none", saved |-> FALSE]

\* the user kills a session by hand: its orbit becomes stale
ExternalKillSession(name) ==
    /\ name \in sessions
    /\ sessions' = sessions \ {name}
    /\ last' = External("kill")
    /\ out' = <<>>
    /\ UNCHANGED <<stateFile, state, worktrees, procs, pending>>

\* the user deletes a worktree by hand
ExternalRemoveWorktree(path) ==
    /\ path \in DOMAIN worktrees
    /\ worktrees' = [p \in DOMAIN worktrees \ {path} |-> worktrees[p]]
    /\ last' = External("remove")
    /\ out' = <<>>
    /\ UNCHANGED <<stateFile, state, sessions, procs, pending>>

(***************************************************************************)
(* list, src/orbit/cli.py:68-91                                            *)
(***************************************************************************)
\* state.orbits.keys() as a list; the model's State keeps no insertion order,
\* so the order is an arbitrary fixed one
RECURSIVE KeyList(_)
KeyList(st) ==
    IF DOMAIN st = {} THEN <<>>
    ELSE LET k == CHOOSE x \in DOMAIN st : TRUE
         IN  <<k>> \o KeyList([n \in DOMAIN st \ {k} |-> st[n]])

\* ListStatus read from the record instead of from tmux
ListStatus_Cached(orbit) == "running"

\* line 81: the status column is asked of tmux for every row
ListStatus(orbit) == IF session_exists(orbit.name) THEN "running" ELSE "stale"

\* lines 79-82: one row per entry of state.orbits
ListRows(st) ==
    [i \in 1..Len(KeyList(st)) |->
        [name   |-> st[KeyList(st)[i]].name,
         planet |-> st[KeyList(st)[i]].planet,
         branch |-> st[KeyList(st)[i]].branch,
         status |-> ListStatus(st[KeyList(st)[i]])]]

\* orbit list: State is loaded (line 73) and printed; nothing is written
List ==
    /\ out' = ListRows(stateFile)
    /\ state' = stateFile
    /\ last' = [op |-> "list", nameArg |-> <<>>, branch |-> <<>>, name |-> <<>>,
                outcome |-> "ok", step |-> "done", session |-> "none",
                worktree |-> "none", confirm |-> "none", saved |-> FALSE]
    /\ UNCHANGED <<stateFile, sessions, worktrees, procs, pending>>

(***************************************************************************)
(* Ports, src/orbit/ports.py:13-27 and src/orbit/state.py:28-32            *)
(***************************************************************************)
\* the ports the planet's windows and panes declare (models.py:11,17)
DeclaredPorts == <<3000>>

\* State.all_ports: the assigned ports of every recorded orbit
all_ports(st) == UNION {{st[n].ports[d] : d \in DOMAIN st[n].ports} : n \in DOMAIN st}

\* lines 21-23: the first candidate from port upwards that is neither in use
\* nor bound on loopback
RECURSIVE FirstCandidate(_, _, _)
FirstCandidate(candidate, in_use, bound) ==
    IF candidate \in in_use \/ candidate \in bound
    THEN FirstCandidate(candidate + 1, in_use, bound)
    ELSE candidate

\* lines 20-25 from the i-th declared port on
RECURSIVE AssignFrom(_, _, _, _, _)
AssignFrom(declared, i, in_use, bound, assigned) ==
    IF i > Len(declared) THEN assigned
    ELSE LET c == FirstCandidate(declared[i], in_use, bound)
         IN  AssignFrom(declared, i + 1, in_use \cup {c}, bound,
                        [d \in DOMAIN assigned \cup {declared[i]} |->
                            IF d = declared[i] THEN c ELSE assigned[d]])

\* the claimed set left out of in_use
assign_ports_NoClaimed(declared, claimed, bound) ==
    AssignFrom(declared, 1, {}, bound, [d \in {} |-> 0])

\* assign_ports(declared, claimed) with the ports bound on loopback
assign_ports(declared, claimed, bound) ==
    AssignFrom(declared, 1, claimed, bound, [d \in {} |-> 0])

\* the most ports a planet declares
MaxDeclared == 2

\* one call of assign_ports; the ports other processes hold are the same at
\* every probe of the call
AssignPorts ==
    /\ out.applied = 0
    /\ out' = [out EXCEPT
                 !.result = assign_ports(out.declared, out.claimed, out.bound),
                 !.applied = 1]
    /\ UNCHANGED <<stateFile, state, sessions, worktrees, last, procs, pending>>

(***************************************************************************)
(* The state file under concurrent invocations: load_state and save_state, *)
(* src/orbit/state.py:35-69, called from src/orbit/cli.py:39,100 and       *)
(* src/orbit/session.py:110,148.  Every invocation is a process of its own *)
(* with its own State; nothing locks the file.  Overlapping writes of two  *)
(* save_state calls are left out: a save starts when no other is writing.  *)
(***************************************************************************)
\* two invocations at a time; 2 is the one started while 1 is running
Procs == {1, 2}

\* launch is not started on a State of this many orbits
MaxStored == 2

IdleProc ==
    [pc |-> "idle", cmd |-> "none", branchArg |-> <<>>, nameArg |-> <<>>,
     name |-> <<>>, state |-> EmptyState]

\* lines 61-69: the text json.dump writes, a token at a time: the opening
\* brace, one entry per orbit under its key, the closing brace
json_dump(st) ==
    <<[kind |-> "{"]>>
    \o [i \in 1..Len(KeyList(st)) |->
           [kind |-> "entry", key |-> KeyList(st)[i], value |-> st[KeyList(st)[i]]]]
    \o <<[kind |-> "}"]>>

\* the content of a file that lacks the last pend tokens of a document
FileTextOf(doc, pend) == SubSeq(json_dump(doc), 1, Len(json_dump(doc)) - pend)

\* the content of the state file: open(path, "w") empties it and the tokens
\* arrive one by one
FileText == FileTextOf(stateFile, pending)

\* lines 41-45: json.load parses a complete document and raises
\* JSONDecodeError on an empty or a cut-off one
json_load(text) ==
    IF Len(text) >= 2 /\ text[1].kind = "{" /\ text[Len(text)].kind = "}"
    THEN [ok |-> TRUE,
          data |-> [k \in {text[i].key : i \in 2..(Len(text) - 1)} |->
                      text[CHOOSE i \in 2..(Len(text) - 1) : text[i].key = k].value]]
    ELSE [ok |-> FALSE, data |-> EmptyState]

\* lines 47-54: orbits[name] = Orbit(**orbit_data) for every entry, under the
\* key the file gives it
load_state(text) ==
    IF json_load(text).ok
    THEN [ok |-> TRUE,
          state |-> [k \in DOMAIN json_load(text).data |-> json_load(text).data[k]]]
    ELSE [ok |-> FALSE, state |-> EmptyState]

\* save_data that merges the orbits on disk into what it writes
save_data_Merged(st, onDisk) ==
    [n \in DOMAIN st \cup DOMAIN onDisk |-> IF n \in DOMAIN st THEN st[n] ELSE onDisk[n]]

\* lines 61-66: the document is built from the in-memory State alone
save_data(st, onDisk) == [n \in DOMAIN st |-> st[n]]

SetProc(p, rec) == [procs EXCEPT ![p] = rec]

\* what a step on the state file did
StoreStep(op, name, outcome) ==
    [op |-> op, nameArg |-> <<>>, branch |-> <<>>, name |-> name,
     outcome |-> outcome, step |-> "done", session |-> "none",
     worktree |-> "none", confirm |-> "none", saved |-> FALSE]

\* cli.py:39 and cli.py:100: the invocation starts by loading State; a file
\* that does not parse ends it with "Failed to load state"
Load(p, cmd, branchArg, nameArg) ==
    /\ procs[p].pc = "idle"
    /\ p = 2 => procs[1].pc # "idle"
    /\ \E r \in {load_state(FileText)} :
           /\ cmd = "launch" => Cardinality(DOMAIN r.state) < MaxStored
           /\ (cmd = "destroy" /\ r.ok) => nameArg[1] \in DOMAIN r.state
           /\ procs' = SetProc(p,
                  IF r.ok
                  THEN [pc |-> "loaded", cmd |-> cmd, branchArg |-> branchArg,
                        nameArg |-> nameArg, name |-> <<>>, state |-> r.state]
                  ELSE IdleProc)
           /\ last' = StoreStep("load", <<>>, IF r.ok THEN "ok" ELSE "StateError")
    /\ UNCHANGED <<stateFile, state, sessions, worktrees, out, pending>>

\* session.py:21-109: launch on the State loaded, up to state.add
RunLaunchNamed(p, st, branch, name, stop) ==
    /\ worktrees' = IF WorktreeCreated(stop)
                    THEN [q \in DOMAIN worktrees \cup {WorktreePath(name)} |->
                             IF q = WorktreePath(name) THEN branch ELSE worktrees[q]]
                    ELSE worktrees
    /\ sessions' = IF SessionCreated(stop) THEN sessions \cup {name} ELSE sessions
    /\ procs' = SetProc(p,
           IF Persisted(stop)
           THEN [procs[p] EXCEPT !.pc = "saving", !.name = <<name>>,
                                 !.state = StateAdd(st, Orbit(name, branch))]
           ELSE IdleProc)

RunLaunch(p) ==
    /\ procs[p].pc = "loaded" /\ procs[p].cmd = "launch"
    /\ \E name \in {OrbitName(procs[p].state, procs[p].nameArg,
                              LaunchBranch(procs[p].branchArg))} :
         \E stop \in {LaunchStop(procs[p].state, procs[p].branchArg,
                                 procs[p].nameArg, LaunchBranch(procs[p].branchArg),
                                 name, "none")} :
            RunLaunchNamed(p, procs[p].state, LaunchBranch(procs[p].branchArg),
                           name, stop)
    /\ UNCHANGED <<stateFile, state, last, out, pending>>

\* session.py:125-147: destroy on the State loaded, up to state.remove, with
\* no command failing and nothing to confirm
RunDestroy(p) ==
    /\ procs[p].pc = "loaded" /\ procs[p].cmd = "destroy"
    /\ LET st    == procs[p].state
           name  == procs[p].nameArg[1]
           known == name \in DOMAIN st
           live  == DestroyKills(known, name)
           path  == IF known THEN st[name].worktree ELSE <<>>
       IN  /\ sessions' = IF live THEN sessions \ {name} ELSE sessions
           /\ worktrees' = IF known /\ PathExists(path)
                           THEN [q \in DOMAIN worktrees \ {path} |-> worktrees[q]]
                           ELSE worktrees
           /\ procs' = SetProc(p,
                  IF DestroyCompletes(known, FALSE, FALSE, "none")
                  THEN [procs[p] EXCEPT !.pc = "saving", !.name = <<name>>,
                                        !.state = StateRemove(st, name)]
                  ELSE IdleProc)
    /\ UNCHANGED <<stateFile, state, last, out, pending>>

\* the State the invocation loaded, seen from the State it is about to save:
\* the file no longer holds it when another invocation has saved since
Overtaken(p, onDisk) ==
    IF procs[p].cmd = "launch"
    THEN onDisk # StateRemove(procs[p].state, procs[p].name[1])
    ELSE \/ procs[p].name[1] \notin DOMAIN onDisk
         \/ StateRemove(onDisk, procs[p].name[1]) # procs[p].state

\* state.py:68: open(state_path, "w") empties the file; nothing is written yet
SaveOpen(p) ==
    /\ procs[p].pc = "saving"
    /\ \A q \in Procs : procs[q].pc # "writing"
    /\ stateFile' = save_data(procs[p].state, load_state(FileText).state)
    /\ pending' = Len(json_dump(stateFile'))
    /\ procs' = SetProc(p, [procs[p] EXCEPT !.pc = "writing"])
    /\ last' = StoreStep("save", procs[p].name,
                         IF pending = 0 /\ Overtaken(p, stateFile)
                         THEN "overtaken" ELSE "ok")
    /\ UNCHANGED <<state, sessions, worktrees, out>>

\* state.py:69: json.dump writes the next token
SaveWrite(p) ==
    /\ procs[p].pc = "writing"
    /\ pending > 0
    /\ pending' = pending - 1
    /\ UNCHANGED <<stateFile, state, sessions, worktrees, last, out, procs>>

\* the with block ends: the file is closed and the invocation returns
SaveClose(p) ==
    /\ procs[p].pc = "writing"
    /\ pending = 0
    /\ procs' = SetProc(p, IdleProc)
    /\ UNCHANGED <<stateFile, state, sessions, worktrees, last, out, pending>>

\* the process is stopped (killed, power lost) inside save_state
StopInSave(p) ==
    /\ procs[p].pc = "writing"
    /\ procs' = SetProc(p, IdleProc)
    /\ last' = StoreStep("stop", procs[p].name, "stopped_in_save")
    /\ UNCHANGED <<stateFile, state, sessions, worktrees, out, pending>>

\* the key a hand edit of the state file gives an entry
EditedKey == <<"x">>

\* the state file is edited by hand while no command runs: an entry is moved
\* under another key and its name field is left as it was
ExternalEdit(k) ==
    /\ pending = 0
    /\ \A q \in Procs : procs[q].pc = "idle"
    /\ k \in DOMAIN stateFile /\ stateFile[k].name = k
    /\ EditedKey \notin DOMAIN stateFile
    /\ stateFile' = [n \in (DOMAIN stateFile \ {k}) \cup {EditedKey} |->
                        IF n = EditedKey THEN stateFile[k] ELSE stateFile[n]]
    /\ last' = StoreStep("edit", <<k>>, "ok")
    /\ UNCHANGED <<state, sessions, worktrees, out, procs, pending>>

\* the steps of invocation p
Invocation(p) ==
    \/ \E b \in Branches : Load(p, "launch", <<b>>, <<>>)
    \/ \E n \in DOMAIN stateFile : Load(p, "destroy", <<>>, <<n>>)
    \/ RunLaunch(p)
    \/ RunDestroy(p)
    \/ SaveOpen(p)
    \/ SaveWrite(p)
    \/ SaveClose(p)
    \/ StopInSave(p)

\* two invocations interleaved
StoreNext == \E p \in Procs : Invocation(p)

\* one invocation at a time; between them the file is edited by hand and
\* sessions and worktrees are removed by hand
FileNext ==
    \/ Invocation(1)
    \/ \E k \in DOMAIN stateFile : ExternalEdit(k)
    \/ \E n \in sessions : ExternalKillSession(n)
    \/ \E q \in DOMAIN worktrees : ExternalRemoveWorktree(q)

(***************************************************************************)
(* resolve_name and _prompt_select, src/orbit/cli.py:159-188               *)
(***************************************************************************)
\* n.startswith(name)
StartsWith(n, name) == Len(name) <= Len(n) /\ SubSeq(n, 1, Len(name)) = name

ResolveResult(kind, value, prompted, notice) ==
    [kind |-> kind, value |-> value, prompted |-> prompted, notice |-> notice]

\* _prompt_select that takes the answer as a 0-based index
prompt_select_ZeroBased(orbits, idx) ==
    IF 0 <= idx /\ idx < Len(orbits)
    THEN ResolveResult("ok", <<orbits[idx + 1]>>, TRUE, FALSE)
    ELSE ResolveResult("Invalid selection", <<>>, TRUE, FALSE)

\* lines 181-188: the candidates are numbered from 1 and idx is the answer to
\* the prompt; orbits[idx - 1] of the 0-based list is element idx here
prompt_select(orbits, idx) ==
    IF 1 <= idx /\ idx <= Len(orbits)
    THEN ResolveResult("ok", <<orbits[idx]>>, TRUE, FALSE)
    ELSE ResolveResult("Invalid selection", <<>>, TRUE, FALSE)

\* lines 164-170: the orbits whose names start with the name given
PrefixMatches(name, orbits) == SelectSeq(orbits, LAMBDA n : StartsWith(n, name))

\* lines 159-178, orbits being list(state.orbits.keys())
resolve_name(name, orbits, prefix_match, idx) ==
    IF name # <<>>
    THEN IF prefix_match
         THEN IF Len(PrefixMatches(name[1], orbits)) = 1
              THEN ResolveResult("ok", <<PrefixMatches(name[1], orbits)[1]>>,
                                 FALSE, FALSE)
              ELSE IF Len(PrefixMatches(name[1], orbits)) > 1
              THEN prompt_select(PrefixMatches(name[1], orbits), idx)
              ELSE ResolveResult("No orbit matching", <<>>, FALSE, FALSE)
         ELSE ResolveResult("ok", name, FALSE, FALSE)
    ELSE IF orbits = <<>> THEN ResolveResult("No active orbits", <<>>, FALSE, FALSE)
    ELSE IF Len(orbits) = 1 THEN ResolveResult("ok", <<orbits[1]>>, FALSE, TRUE)
    ELSE prompt_select(orbits, idx)

\* the longest list of orbits resolve_name is given
MaxListed == 3

ResolveKeys ==
    {feat, <<"f", "e", "a", "t", "-", "2">>, <<"f", "e", "a", "t", "-", "3">>, demo}

\* the key lists of a State: any orbits in any order, none twice
OrbitLists ==
    {l \in UNION {[1..n -> ResolveKeys] : n \in 0..MaxListed} :
        \A i, j \in DOMAIN l : i # j => l[i] # l[j]}

\* the name argument: none, a full name, a prefix, a name of no orbit
ResolveArgs ==
    {<<>>, <<feat>>, <<demo>>, <<<<"f", "e">>>>,
     <<<<"f", "e", "a", "t", "-", "2">>>>, <<<<"z">>>>}

\* the integers typed at the prompt
Answers == (0 - 1)..(MaxListed + 1)

\* the call: out holds the arguments and then the result
Resolve ==
    /\ out.result.kind = "none"
    /\ out' = [out EXCEPT !.result =
                   resolve_name(out.name, out.orbits, out.prefix_match, out.idx)]
    /\ UNCHANGED <<stateFile, state, sessions, worktrees, last, procs, pending>>

ResolveNext == Resolve

(***************************************************************************)
(* slugify applied to branch names and to its own output                   *)
(***************************************************************************)
\* the longest tail of a branch name
MaxTail == 4

\* with a tail of up to four characters the name reaches past slug[:40]
PadLen == SlugMaxLen - 3

TailChars == {"a", "-", "/", "B", "_"}

Pad(n) == [i \in 1..n |-> "a"]

\* branch names: a tail alone, and a tail after PadLen letters
SlugInputs ==
    {Pad(n) \o t : n \in {0, PadLen},
                   t \in UNION {[1..k -> TailChars] : k \in 0..MaxTail}}

Slugify ==
    /\ out.applied = 0
    /\ out' = [out EXCEPT !.slug = slugify(out.branch), !.applied = 1]
    /\ UNCHANGED <<stateFile, state, sessions, worktrees, last, procs, pending>>

SlugifyAgain ==
    /\ out.applied = 1
    /\ out' = [out EXCEPT !.again = slugify(out.slug), !.applied = 2]
    /\ UNCHANGED <<stateFile, state, sessions, worktrees, last, procs, pending>>

SlugNext ==
    \/ Slugify
    \/ SlugifyAgain

(***************************************************************************)
(* sync_untracked_to_worktree                                              *)
(***************************************************************************)
\* the most untracked files git lists, and the most patterns of a planet
MaxEntries == 3

MaxPatterns == 2

\* file names, directory names and patterns, character by character
Names ==
    [DotEnv |-> <<".", "e", "n", "v">>,
     DotCache |-> <<".", "c", "a", "c", "h", "e">>,
     PnpmStore |-> <<".", "p", "n", "p", "m", "-", "s", "t", "o", "r", "e">>,
     NodeModules |-> <<"n", "o", "d", "e", "_", "m", "o", "d", "u", "l", "e", "s">>,
     Packages |-> <<"p", "a", "c", "k", "a", "g", "e", "s">>,
     Api |-> <<"a", "p", "i">>,
     SomeHash |-> <<"s", "o", "m", "e", "-", "h", "a", "s", "h">>,
     PkgJs |-> <<"p", "k", "g", ".", "j", "s">>,
     IndexJs |-> <<"i", "n", "d", "e", "x", ".", "j", "s">>,
     DataBin |-> <<"d", "a", "t", "a", ".", "b", "i", "n">>,
     DotStar |-> <<".", "*">>,
     Star |-> <<"*">>,
     RepoRoot |-> <<"r", "e", "p", "o">>,
     RepoLink |-> <<"l", "i", "n", "k">>]

\* the untracked files of a repository, in the order git ls-files prints them
UntrackedFiles ==
    << <<Names.DotCache, Names.DataBin>>,
       <<Names.DotEnv>>,
       <<Names.PnpmStore, Names.SomeHash, Names.PkgJs>>,
       <<Names.NodeModules, Names.DotCache, Names.DataBin>>,
       <<Names.NodeModules, Names.IndexJs>>,
       <<Names.NodeModules, Names.PkgJs>>,
       <<Names.Packages, Names.Api, Names.DotEnv>> >>

\* what git ls-files --others can print: some of the files, in that order
EntryLists ==
    {SelectSeq(UntrackedFiles, LAMBDA f : f \in chosen) :
        chosen \in {c \in SUBSET Range(UntrackedFiles) : Cardinality(c) <= MaxEntries}}

\* Path.resolve(): the first component is followed when it is the symlink
resolve(path) ==
    IF path # <<>> /\ path[1] = Names.RepoLink THEN <<Names.RepoRoot>> \o Tail(path) ELSE path

\* fnmatch.fnmatch(name, pattern) with literal characters, ? and *
RECURSIVE fnmatch(_, _)
fnmatch(name, pattern) ==
    IF pattern = <<>> THEN name = <<>>
    ELSE IF Head(pattern) = "*"
         THEN \/ fnmatch(name, Tail(pattern))
              \/ name # <<>> /\ fnmatch(Tail(name), pattern)
    ELSE IF Head(pattern) = "?"
         THEN name # <<>> /\ fnmatch(Tail(name), Tail(pattern))
    ELSE name # <<>> /\ Head(name) = Head(pattern)
                     /\ fnmatch(Tail(name), Tail(pattern))

\* line 237: the candidate's last component against every pattern
AnyMatch(candidate, patterns) ==
    \E pattern \in patterns : fnmatch(candidate[Len(candidate)], pattern)

\* line 235: the path's prefixes, shallowest first, the path itself last
Candidates(file_rel) == [i \in 1..Len(file_rel) |-> SubSeq(file_rel, 1, i)]

\* the deepest matching candidate instead of the shallowest
Matched_Deepest(file_rel, patterns) ==
    LET hits == {i \in 1..Len(file_rel) : AnyMatch(Candidates(file_rel)[i], patterns)}
    IN  IF hits = {} THEN <<>>
        ELSE Candidates(file_rel)[CHOOSE i \in hits : \A j \in hits : j <= i]

\* lines 233-239: the first candidate that matches, <<>> for None
Matched(file_rel, patterns) ==
    LET hits == {i \in 1..Len(file_rel) : AnyMatch(Candidates(file_rel)[i], patterns)}
    IN  IF hits = {} THEN <<>>
        ELSE Candidates(file_rel)[CHOOSE i \in hits : \A j \in hits : i <= j]

\* dst.parent.mkdir(parents=True): every strict prefix of dst inside the worktree
Parents(matched) == {SubSeq(matched, 1, i) : i \in 1..(Len(matched) - 1)}

\* lines 229-251, one entry after the other; acc is what the loop has built
RECURSIVE SyncEntries(_, _, _, _, _, _, _)
SyncEntries(entries, i, source_path, existing, patterns, already_synced, acc) ==
    IF i > Len(entries) THEN acc
    ELSE LET matched == Matched(entries[i], patterns)
         IN  IF matched = <<>> \/ matched \in already_synced
             THEN SyncEntries(entries, i + 1, source_path, existing, patterns,
                              already_synced, acc)
             ELSE IF matched \in existing \/ matched \in DOMAIN acc.links
             THEN SyncEntries(entries, i + 1, source_path, existing, patterns,
                              already_synced \cup {matched}, acc)
             ELSE SyncEntries(entries, i + 1, source_path, existing, patterns,
                              already_synced \cup {matched},
                              [synced |-> Append(acc.synced, matched),
                               links |-> [d \in DOMAIN acc.links \cup {matched} |->
                                            IF d = matched
                                            THEN resolve(source_path \o matched)
                                            ELSE acc.links[d]],
                               dirs |-> acc.dirs \cup (Parents(matched) \ existing)])

\* the returned list, the symlinks made and the directories made
sync_untracked_to_worktree(source_path, existing, patterns, entries) ==
    SyncEntries(entries, 1, source_path, existing, patterns, {},
                [synced |-> <<>>, links |-> [d \in {} |-> <<>>], dirs |-> {}])

SyncUntrackedToWorktree ==
    /\ out.applied = 0
    /\ out' = [out EXCEPT
                 !.result = sync_untracked_to_worktree(out.source_path, out.existing,
                                                       out.patterns, out.entries),
                 !.applied = 1]
    /\ UNCHANGED <<stateFile, state, sessions, worktrees, last, procs, pending>>

(***************************************************************************)
(* detect_default_branch                                                   *)
(***************************************************************************)
\* the most lines git ls-remote --symref prints
MaxLines == 2

\* one line of git ls-remote --symref <remote> HEAD, cut at the places the
\* code cuts it: "ref: refs/heads/<branch>\tHEAD" or "<sha>\tHEAD"
SymrefLine(branch) == <<"ref: refs/heads/", branch, "\tHEAD">>

ShaLine == <<"sha", "\tHEAD">>

\* git symbolic-ref refs/remotes/<remote>/HEAD prints refs/remotes/<r>/<branch>
CachedRef(r, branch) == <<"refs/remotes/", r, "/", branch>>

\* git rev-parse --verify <branch> in the repository
branch_exists_locally(local, branch) == branch \in local

\* lines 92-94: the first line with the prefix and the suffix, cut between them
RECURSIVE FirstSymref(_, _)
FirstSymref(lines, i) ==
    IF i > Len(lines) THEN [found |-> FALSE, branch |-> <<>>]
    ELSE IF Head(lines[i]) = "ref: refs/heads/" /\ lines[i][Len(lines[i])] = "\tHEAD"
         THEN [found |-> TRUE, branch |-> SubSeq(lines[i], 2, Len(lines[i]) - 1)]
         ELSE FirstSymref(lines, i + 1)

\* lines 103-107: the cached ref under refs/remotes/<remote>/
CachedSymref(remote, cached) ==
    IF cached.returncode = 0 /\ Len(cached.stdout) >= 3
          /\ SubSeq(cached.stdout, 1, 3) = <<"refs/remotes/", remote, "/">>
    THEN [found |-> TRUE, branch |-> SubSeq(cached.stdout, 4, Len(cached.stdout))]
    ELSE [found |-> FALSE, branch |-> <<>>]

\* lines 109-112: the first of main, master, develop the repository has
LocalDefault(local) ==
    IF branch_exists_locally(local, "main") THEN [found |-> TRUE, branch |-> <<"main">>]
    ELSE IF branch_exists_locally(local, "master")
         THEN [found |-> TRUE, branch |-> <<"master">>]
    ELSE IF branch_exists_locally(local, "develop")
         THEN [found |-> TRUE, branch |-> <<"develop">>]
    ELSE [found |-> FALSE, branch |-> <<>>]

\* the cached symref asked before the remote
detect_default_branch_CachedFirst(remote, live, cached, local) ==
    IF CachedSymref(remote, cached).found THEN CachedSymref(remote, cached)
    ELSE IF live.returncode = 0 /\ FirstSymref(live.stdout, 1).found
         THEN FirstSymref(live.stdout, 1)
    ELSE LocalDefault(local)

\* found is FALSE for None
detect_default_branch(remote, live, cached, local) ==
    IF live.returncode = 0 /\ FirstSymref(live.stdout, 1).found
    THEN FirstSymref(live.stdout, 1)
    ELSE IF CachedSymref(remote, cached).found THEN CachedSymref(remote, cached)
    ELSE LocalDefault(local)

DetectDefaultBranch ==
    /\ out.applied = 0
    /\ out' = [out EXCEPT
                 !.result = detect_default_branch(out.remote, out.live, out.cached,
                                                  out.local),
                 !.applied = 1]
    /\ UNCHANGED <<stateFile, state, sessions, worktrees, last, procs, pending>>

(***************************************************************************)
(* Planet entries of the configuration: load_config and scaffold_planet    *)
(***************************************************************************)
\* the most planets of a configuration file
MaxPlanets == 2

\* models.py:21-27: the fields of Planet, each required or with its default
PlanetModel ==
    [name |-> "required", path |-> "required", description |-> "None",
     worktree_base |-> "required", env |-> "{}", windows |-> "[]"]

\* Planet(**entry) for an entry that gives these keys: a field that is given is
\* kept, a field that is not takes its default, a required field that is not
\* given is a ValidationError, a key Planet does not declare is dropped
Planet(given) ==
    IF \A f \in DOMAIN PlanetModel : PlanetModel[f] = "required" => f \in given
    THEN [kind |-> "ok",
          planet |-> [f \in DOMAIN PlanetModel |->
                        IF f \in given THEN "given" ELSE PlanetModel[f]]]
    ELSE [kind |-> "ValidationError",
          planet |-> [f \in DOMAIN PlanetModel |-> "unset"]]

\* config.py:68-89 on a file that exists or not and parses to these entries
load_config(exists, entries) ==
    IF ~exists THEN [kind |-> "ConfigNotice", planets |-> <<>>]
    ELSE IF \E i \in DOMAIN entries : Planet(entries[i]).kind # "ok"
    THEN [kind |-> "ConfigError", planets |-> <<>>]
    ELSE [kind |-> "ok",
          planets |-> [i \in DOMAIN entries |-> Planet(entries[i]).planet]]

\* config.py:109-117: Planet(name=name, path=path)
scaffold_planet == Planet({"name", "path"})

LoadConfig ==
    /\ out.op = "none"
    /\ out' = [out EXCEPT !.op = "load_config",
                          !.result = load_config(out.exists, out.entries)]
    /\ UNCHANGED <<stateFile, state, sessions, worktrees, last, procs, pending>>

ScaffoldPlanet ==
    /\ out.op = "none"
    /\ out' = [out EXCEPT !.op = "scaffold_planet",
                          !.result = [kind |-> scaffold_planet.kind,
                                      planets |-> <<scaffold_planet.planet>>]]
    /\ UNCHANGED <<stateFile, state, sessions, worktrees, last, procs, pending>>

(***************************************************************************)
(* The ignore file of a new worktree, src/orbit/session.py:76-100          *)
(***************************************************************************)
\* the most lines of the repository's .gitignore
MaxIgnoreLines == 3

\* .gitignore in the worktree after create_worktree and the sync of untracked
\* files: a committed file is checked out, an untracked one is symlinked when
\* a pattern matches its name; no later step of launch writes to it
WorktreeIgnoreFile(kind, lines, patterns) ==
    IF kind = "committed" THEN [exists |-> TRUE, lines |-> lines]
    ELSE IF kind = "untracked"
            /\ AnyMatch(<< <<".", "g", "i", "t", "i", "g", "n", "o", "r", "e">> >>,
                        patterns)
    THEN [exists |-> TRUE, lines |-> lines]
    ELSE [exists |-> FALSE, lines |-> <<>>]

\* lines 76-100 of launch, for what they leave in the worktree's .gitignore
LaunchWorktreeFiles ==
    /\ out.applied = 0
    /\ out' = [out EXCEPT
                 !.result = WorktreeIgnoreFile(out.kind, out.lines, {Names.DotStar}),
                 !.applied = 1]
    /\ UNCHANGED <<stateFile, state, sessions, worktrees, last, procs, pending>>

(***************************************************************************)
(* Branch resolution: create_worktree, src/orbit/worktree.py:115-161, and  *)
(* the base launch hands to it, src/orbit/session.py:66-76.  Both read the *)
(* same repository and the same remote during one launch.                  *)
(***************************************************************************)
\* worktree.py:128 and session.py:67: remote and remote_branch_exists(...)
RemoteHasBranch(remote, remote_has) == remote # "None" /\ remote_has

\* session.py:66-68
is_new_branch(local_exists, remote, remote_has) ==
    ~local_exists /\ ~RemoteHasBranch(remote, remote_has)

\* session.py:70-71: the base handed to create_worktree; default is what
\* detect_default_branch returns, "None" included
LaunchBase(local_exists, remote, remote_has, base, default) ==
    IF is_new_branch(local_exists, remote, remote_has) /\ base = "None"
          /\ remote # "None"
    THEN [base |-> default, detected |-> TRUE]
    ELSE [base |-> base, detected |-> FALSE]

\* the base used as start point whenever one is given
create_worktree_BaseFirst(branch, local_exists, remote, remote_has, base, fetch_ok) ==
    IF base # "None" THEN [kind |-> "new", fetched |-> FALSE, start |-> <<base>>]
    ELSE IF local_exists
    THEN [kind |-> "checkout", fetched |-> FALSE, start |-> <<branch>>]
    ELSE [kind |-> "new", fetched |-> FALSE, start |-> <<>>]

\* worktree.py:124-149: the git worktree add command that is built; start is
\* its last argument, <<>> when there is none and git starts from HEAD
create_worktree(branch, local_exists, remote, remote_has, base, fetch_ok) ==
    IF local_exists
    THEN [kind |-> "checkout", fetched |-> FALSE, start |-> <<branch>>]
    ELSE IF RemoteHasBranch(remote, remote_has)
    THEN IF fetch_ok
         THEN [kind |-> "track", fetched |-> TRUE, start |-> <<remote, "/", branch>>]
         ELSE [kind |-> "WorktreeError", fetched |-> FALSE, start |-> <<>>]
    ELSE [kind |-> "new", fetched |-> FALSE,
          start |-> IF base # "None" THEN <<base>> ELSE <<>>]

\* session.py:66-76, on the branches the repository has by now: git worktree
\* add -b makes the local branch when the command is "track" or "new"
LaunchCreateWorktree ==
    /\ out.applied \in {0, 2}
    /\ \E b \in {LaunchBase(out.has_branch, out.remote, out.remote_has,
                            out.base, out.default)} :
        \E r \in {create_worktree(out.branch, out.has_branch, out.remote,
                                   out.remote_has, b.base, out.fetch_ok)} :
          out' = [out EXCEPT
                    !.detected = b.detected,
                    !.passed = b.base,
                    !.result = r,
                    !.first = IF out.applied = 0 THEN r.kind ELSE @,
                    !.has_branch = @ \/ r.kind \in {"track", "new"},
                    !.applied = @ + 1]
    /\ UNCHANGED <<stateFile, state, sessions, worktrees, last, procs, pending>>

\* destroy that deletes the branch launch made
DestroyOrbit_BranchDeleted ==
    /\ out.applied = 1 /\ out.result.kind # "WorktreeError"
    /\ \E removed \in BOOLEAN :
          out' = [out EXCEPT !.applied = 2,
                             !.worktree = IF removed THEN "removed" ELSE "warning",
                             !.has_branch = @ /\ out.first = "checkout"]
    /\ UNCHANGED <<stateFile, state, sessions, worktrees, last, procs, pending>>

\* session.py:139-143, the orbit of that launch is destroyed: git worktree
\* remove --force (worktree.py:164-172) removes the worktree or fails with a
\* warning; no command of destroy names the branch
DestroyOrbit ==
    /\ out.applied = 1 /\ out.result.kind # "WorktreeError"
    /\ \E removed \in BOOLEAN :
          out' = [out EXCEPT !.applied = 2,
                             !.worktree = IF removed THEN "removed" ELSE "warning"]
    /\ UNCHANGED <<stateFile, state, sessions, worktrees, last, procs, pending>>

(***************************************************************************)
(* setup_windows and setup_panes, src/orbit/tmux.py:142-251.  The result   *)
(* is the list of tmux commands issued, in order.  tmux finds a window      *)
(* given by name only when one window of the session has that name.        *)
(***************************************************************************)
\* the most windows a planet declares
MaxWindows == 2

\* one tmux command: index is a window index, window a window name, pane a
\* pane index, arg the remaining argument; -1 and "" where there is none
Cmd(cmd, index, window, pane, arg) ==
    [cmd |-> cmd, index |-> index, window |-> window, pane |-> pane, arg |-> arg]

\* lines 142-149
layout_for(n) ==
    IF n <= 1 THEN "None"
    ELSE IF n = 2 THEN "even-horizontal"
    ELSE IF n = 3 THEN "main-vertical"
    ELSE "tiled"

\* lines 171-175 from the i-th pane on (i counts from 1)
RECURSIVE TitlePanes(_, _, _, _)
TitlePanes(window, panes, pane_base, i) ==
    IF i > Len(panes) THEN <<>>
    ELSE <<Cmd("select-pane", -1, window, pane_base + i - 1, panes[i].name)>>
         \o (IF panes[i].command # "None"
             THEN <<Cmd("send-keys", -1, window, pane_base + i - 1, panes[i].command)>>
             ELSE <<>>)
         \o TitlePanes(window, panes, pane_base, i + 1)

\* setup_panes with the layout chosen before the panes are split off
setup_panes_LayoutForOne(window, panes, pane_base) ==
    IF panes = <<>> THEN <<>>
    ELSE [i \in 1..(Len(panes) - 1) |->
             Cmd("split-window", -1, window, -1, panes[i + 1].directory)]
         \o (IF layout_for(1) # "None"
             THEN <<Cmd("select-layout", -1, window, -1, layout_for(1))>>
             ELSE <<>>)
         \o <<Cmd("list-panes", -1, window, -1, "")>>
         \o TitlePanes(window, panes, pane_base, 1)

\* lines 152-175; pane_base is what list-panes prints first
setup_panes(window, panes, pane_base) ==
    IF panes = <<>> THEN <<>>
    ELSE [i \in 1..(Len(panes) - 1) |->
             Cmd("split-window", -1, window, -1, panes[i + 1].directory)]
         \o (IF layout_for(Len(panes)) # "None"
             THEN <<Cmd("select-layout", -1, window, -1, layout_for(Len(panes)))>>
             ELSE <<>>)
         \o (IF Len(panes) > 1
             THEN <<Cmd("set-window-option", -1, window, -1, "pane-border-status"),
                    Cmd("set-window-option", -1, window, -1, "pane-border-format")>>
             ELSE <<>>)
         \o <<Cmd("list-panes", -1, window, -1, "")>>
         \o TitlePanes(window, panes, pane_base, 1)

\* lines 239-242 and 246-249: the panes, else the bare command when it is set
WindowCmds(window, pane_base) ==
    IF window.panes # <<>> THEN setup_panes(window.name, window.panes, pane_base)
    ELSE IF window.command # "None"
    THEN <<Cmd("send-keys", -1, window.name, -1, window.command)>>
    ELSE <<>>

\* lines 238-249 from the i-th declared window on; acc.cmds are the commands
\* issued so far, acc.raised says a command failed and TmuxError ended the call
RECURSIVE SetupFrom(_, _, _, _, _)
SetupFrom(windows, i, base, pane_base, acc) ==
    IF i > Len(windows)
    THEN [cmds |-> Append(acc.cmds, Cmd("select-window", base, "", -1, "")),
          raised |-> FALSE]
    ELSE LET made == IF i = 1
                     THEN Cmd("rename-window", base, "", -1, windows[1].name)
                     ELSE Cmd("new-window", -1, "", -1, windows[i].name)
             todo == WindowCmds(windows[i], pane_base)
             twice == \E j \in 1..(i - 1) : windows[j].name = windows[i].name
         IN  IF todo # <<>> /\ twice
             THEN [cmds |-> Append(Append(acc.cmds, made), todo[1]), raised |-> TRUE]
             ELSE SetupFrom(windows, i + 1, base, pane_base,
                            [cmds |-> Append(acc.cmds, made) \o todo,
                             raised |-> FALSE])

\* lines 232-251; base is what list-windows prints first
setup_windows(windows, base, pane_base) ==
    IF windows = <<>> THEN [cmds |-> <<>>, raised |-> FALSE]
    ELSE SetupFrom(windows, 1, base, pane_base,
                   [cmds |-> <<Cmd("list-windows", -1, "", -1, "")>>,
                    raised |-> FALSE])

SetupWindows ==
    /\ out.op = "none"
    /\ out' = [out EXCEPT !.op = "setup_windows",
                          !.result = setup_windows(out.windows, out.base,
                                                   out.pane_base)]
    /\ UNCHANGED <<stateFile, state, sessions, worktrees, last, procs, pending>>

\* setup_panes on the first declared window of a session that has only it
SetupPanes ==
    /\ out.op = "none"
    /\ out.windows # <<>>
    /\ out' = [out EXCEPT !.op = "setup_panes",
                          !.result = [cmds |-> setup_panes(out.windows[1].name,
                                                           out.windows[1].panes,
                                                           out.pane_base),
                                      raised |-> FALSE]]
    /\ UNCHANGED <<stateFile, state, sessions, worktrees, last, procs, pending>>

(***************************************************************************)
(* detect_planet, src/orbit/config.py:92-106, and the launch that calls it *)
(* from a directory no planet holds, src/orbit/session.py:21               *)
(***************************************************************************)
\* the last matching planet instead of the first
detect_planet_LastMatch(cwd, planets) ==
    LET planet_path(i) ==
            resolve(IF planets[i] # <<>> /\ planets[i][1] = <<"~">>
                    THEN <<Names.RepoRoot>> \o Tail(planets[i]) ELSE planets[i])
        relative_to(i) ==
            /\ Len(planet_path(i)) <= Len(resolve(cwd))
            /\ SubSeq(resolve(cwd), 1, Len(planet_path(i))) = planet_path(i)
        hits == {i \in DOMAIN planets : relative_to(i)}
    IN  IF hits = {} THEN [kind |-> "ConfigError", planet |-> 0, listed |-> planets]
        ELSE [kind |-> "ok", planet |-> CHOOSE i \in hits : \A j \in hits : j <= i,
              listed |-> <<>>]

\* lines 93-106: the index of the planet returned, or ConfigError with the
\* planets its message lists.  planet_path is
\* Path(planet.path).expanduser().resolve(), "~" standing for the home
\* directory, which is the repository directory here; relative_to holds when
\* resolved_cwd.relative_to(planet_path) does not raise
detect_planet(cwd, planets) ==
    LET planet_path(i) ==
            resolve(IF planets[i] # <<>> /\ planets[i][1] = <<"~">>
                    THEN <<Names.RepoRoot>> \o Tail(planets[i]) ELSE planets[i])
        relative_to(i) ==
            /\ Len(planet_path(i)) <= Len(resolve(cwd))
            /\ SubSeq(resolve(cwd), 1, Len(planet_path(i))) = planet_path(i)
        hits == {i \in DOMAIN planets : relative_to(i)}
    IN  IF hits = {} THEN [kind |-> "ConfigError", planet |-> 0, listed |-> planets]
        ELSE [kind |-> "ok", planet |-> CHOOSE i \in hits : \A j \in hits : i <= j,
              listed |-> <<>>]

DetectPlanet ==
    /\ out.op = "none"
    /\ out' = [out EXCEPT !.op = "detect_planet",
                          !.result = detect_planet(out.cwd, out.planets)]
    /\ UNCHANGED <<stateFile, state, sessions, worktrees, last, procs, pending>>

\* launch from a directory of no planet: line 21 raises before any other step
LaunchUnmatched ==
    /\ out.op = "none"
    /\ detect_planet(out.cwd, out.planets).kind = "ConfigError"
    /\ out' = [out EXCEPT !.op = "launch",
                          !.result = detect_planet(out.cwd, out.planets)]
    /\ last' = [last EXCEPT !.op = "launch", !.outcome = "error",
                            !.step = "detect_planet"]
    /\ UNCHANGED <<stateFile, state, sessions, worktrees, procs, pending>>

(***************************************************************************)
(* save_state and load_state on one path, src/orbit/state.py:35-69, with   *)
(* the fields of Orbit, src/orbit/models.py:34-41, as JSON carries them    *)
(***************************************************************************)
\* model_dump_json that drops the fraction of a second
model_dump_json_WholeSeconds(orbit) ==
    LET RECURSIVE str(_)
        str(n) == IF n < 10 THEN <<n>> ELSE str(n \div 10) \o <<n % 10>>
    IN  [name |-> orbit.name, planet |-> orbit.planet, branch |-> orbit.branch,
         worktree |-> orbit.worktree, tmux_session |-> orbit.tmux_session,
         ports |-> [k \in {str(p) : p \in DOMAIN orbit.ports} |->
                      orbit.ports[CHOOSE p \in DOMAIN orbit.ports : str(p) = k]],
         created_at |-> <<orbit.created_at.second, <<>>,
                          CASE orbit.created_at.tzinfo = "utc" -> "Z"
                            [] orbit.created_at.tzinfo = "None" -> ""
                            [] OTHER -> orbit.created_at.tzinfo>>]

\* state.py:63: json.loads(orbit.model_dump_json()).  The keys of ports
\* become strings of decimal digits; created_at becomes ISO 8601 text: the
\* time to the second, the microseconds when they are not zero, "Z" for UTC,
\* nothing for a naive datetime and the offset otherwise
model_dump_json(orbit) ==
    LET RECURSIVE str(_)
        str(n) == IF n < 10 THEN <<n>> ELSE str(n \div 10) \o <<n % 10>>
    IN  [name |-> orbit.name, planet |-> orbit.planet, branch |-> orbit.branch,
         worktree |-> orbit.worktree, tmux_session |-> orbit.tmux_session,
         ports |-> [k \in {str(p) : p \in DOMAIN orbit.ports} |->
                      orbit.ports[CHOOSE p \in DOMAIN orbit.ports : str(p) = k]],
         created_at |-> <<orbit.created_at.second,
                          IF orbit.created_at.microsecond = 0 THEN <<>>
                          ELSE <<orbit.created_at.microsecond>>,
                          CASE orbit.created_at.tzinfo = "utc" -> "Z"
                            [] orbit.created_at.tzinfo = "None" -> ""
                            [] OTHER -> orbit.created_at.tzinfo>>]

\* state.py:50: Orbit(**orbit_data); pydantic reads the keys of ports as
\* integers and created_at as a datetime
OrbitFromData(orbit_data) ==
    LET RECURSIVE int(_)
        int(s) == IF s = <<>> THEN 0
                  ELSE 10 * int(SubSeq(s, 1, Len(s) - 1)) + s[Len(s)]
        text == orbit_data.created_at
    IN  [name |-> orbit_data.name, planet |-> orbit_data.planet,
         branch |-> orbit_data.branch, worktree |-> orbit_data.worktree,
         tmux_session |-> orbit_data.tmux_session,
         ports |-> [p \in {int(k) : k \in DOMAIN orbit_data.ports} |->
                      orbit_data.ports[CHOOSE k \in DOMAIN orbit_data.ports : int(k) = p]],
         created_at |-> [second |-> text[1],
                         microsecond |-> IF text[2] = <<>> THEN 0 ELSE text[2][1],
                         tzinfo |-> CASE text[3] = "Z" -> "utc"
                                      [] text[3] = "" -> "None"
                                      [] OTHER -> text[3]]]

\* state.py:57-69: the file is opened with "w" and holds the new document
SaveState ==
    /\ out.op = "none"
    /\ out' = [out EXCEPT
           !.op = "save_state",
           !.file = [exists |-> TRUE,
                     text |-> LET data == save_data(out.state,
                                              load_state(out.file.text).state)
                              IN  json_dump([k \in DOMAIN data |->
                                                model_dump_json(data[k])])]]
    /\ UNCHANGED <<stateFile, state, sessions, worktrees, last, procs, pending>>

\* state.py:35-54: State() for a missing file, else an Orbit for every entry
LoadState ==
    /\ out.op \in {"none", "save_state"}
    /\ out' = [out EXCEPT
           !.op = IF out.op = "none" THEN "load_state" ELSE "save_load",
           !.loaded = IF ~out.file.exists THEN EmptyState
                      ELSE [k \in DOMAIN load_state(out.file.text).state |->
                              OrbitFromData(load_state(out.file.text).state[k])]]
    /\ UNCHANGED <<stateFile, state, sessions, worktrees, last, procs, pending>>

(***************************************************************************)
(* Specification                                                           *)
(***************************************************************************)
\* names destroy is asked for: the recorded ones and some that may not be
DestroyNames == DOMAIN stateFile \cup ExplicitNames \cup {feat}

\* no state file, no session, no worktree, no invocation
InitWorld ==
    /\ stateFile = EmptyState
    /\ state = EmptyState
    /\ sessions = {}
    /\ worktrees = [p \in {} |-> MainBranch]
    /\ last = [op |-> "none", nameArg |-> <<>>, branch |-> <<>>, name |-> <<>>,
               outcome |-> "none", step |-> "done", session |-> "none",
               worktree |-> "none", confirm |-> "none", saved |-> FALSE]
    /\ procs = [p \in Procs |-> IdleProc]
    /\ pending = 0

Init == InitWorld /\ out = <<>>

ResolveInit ==
    /\ InitWorld
    /\ out \in {[name |-> name, orbits |-> orbits, prefix_match |-> prefix_match,
                  idx |-> idx, result |-> ResolveResult("none", <<>>, FALSE, FALSE)] :
                    name \in ResolveArgs, orbits \in OrbitLists,
                    prefix_match \in BOOLEAN, idx \in Answers}

SlugInit ==
    /\ InitWorld
    /\ out \in {[branch |-> branch, slug |-> <<>>, again |-> <<>>, applied |-> 0] :
                    branch \in SlugInputs}

Next ==
    \/ \E b \in {<<>>} \cup {<<x>> : x \in Branches},
          n \in {<<>>} \cup {<<x>> : x \in ExplicitNames} :
          Launch(b, n)
    \/ \E n \in DestroyNames, killRes \in KillResults, changes \in ChangesResults,
          wtFail \in RemoveFailPoints :
          Destroy(n, killRes, changes, wtFail)
    \/ \E n \in sessions : ExternalKillSession(n)
    \/ \E p \in DOMAIN worktrees : ExternalRemoveWorktree(p)
    \/ List

Spec == Init /\ [][Next]_vars

\* launches under explicit names, a plain one and an absolute path, with
\* sessions and worktrees removed by hand in between
NameSpec ==
    Init /\ [][\/ \E b \in Branches, n \in {demo, <<"/", "t", "m", "p">>} :
                     Launch(<<b>>, <<n>>)
                \/ \E s \in sessions : ExternalKillSession(s)
                \/ \E p \in DOMAIN worktrees : ExternalRemoveWorktree(p)]_vars

\* the state file with two invocations in flight
StoreSpec == Init /\ [][StoreNext]_vars

\* the state file with one invocation at a time and hand edits
FileSpec == Init /\ [][FileNext]_vars

\* resolve_name on every argument, list of orbits and answer
ResolveSpec == ResolveInit /\ [][ResolveNext]_vars

\* slugify on branch names and on its own output
SlugSpec == SlugInit /\ [][SlugNext]_vars

SyncInit ==
    /\ InitWorld
    /\ out \in {[source_path |-> source_path, existing |-> existing,
                  patterns |-> patterns, entries |-> entries, applied |-> 0,
                  result |-> [synced |-> <<>>, links |-> [d \in {} |-> <<>>],
                              dirs |-> {}]] :
                    \* the planet's path: the repository or a symlink to it
                    source_path \in {<<Names.RepoRoot>>, <<Names.RepoLink>>},
                    \* paths the new worktree already holds
                    existing \in SUBSET {<<Names.DotEnv>>, <<Names.NodeModules>>},
                    \* any(... for pattern in patterns) reads the list as a set
                    patterns \in {ps \in SUBSET {Names.DotStar, Names.Star,
                                                  Names.DotEnv, Names.DotCache,
                                                  Names.NodeModules} :
                                     Cardinality(ps) <= MaxPatterns},
                    entries \in EntryLists}

\* sync_untracked_to_worktree on every list of untracked files and patterns
SyncSpec == SyncInit /\ [][SyncUntrackedToWorktree]_vars

\* every answer of the remote, of the cached symref and of the local branches
DefaultInit ==
    /\ InitWorld
    /\ out \in {[remote |-> remote, live |-> live, cached |-> cached, local |-> local,
                  applied |-> 0, result |-> [found |-> FALSE, branch |-> <<>>]] :
                    remote \in {"origin", "upstream"},
                    live \in {[returncode |-> rc, stdout |-> lines] :
                                rc \in {0, 128},
                                lines \in UNION {[1..n -> {SymrefLine("main"),
                                                            SymrefLine("trunk"), ShaLine}] :
                                                   n \in 0..MaxLines}},
                    cached \in {[returncode |-> rc, stdout |-> ref] :
                                  rc \in {0, 128},
                                  ref \in {<<>>, CachedRef("origin", "main"),
                                           CachedRef("origin", "dev"),
                                           CachedRef("upstream", "main")}},
                    local \in SUBSET {"main", "master", "develop", "feat"}}

\* detect_default_branch on every combination of the three answers
DefaultSpec == DefaultInit /\ [][DetectDefaultBranch]_vars

\* declared lists with and without repeats, next to claimed and bound ports
PortInit ==
    /\ InitWorld
    /\ out \in {[declared |-> declared, claimed |-> claimed, bound |-> bound,
                  applied |-> 0, result |-> [d \in {} |-> 0]] :
                    declared \in UNION {[1..n -> 3000..3001] : n \in 0..MaxDeclared},
                    claimed \in SUBSET (3000..3002),
                    bound \in SUBSET (3000..3002)}

\* assign_ports on every declared list, claimed set and set of bound ports
PortSpec == PortInit /\ [][AssignPorts]_vars

ConfigInit ==
    /\ InitWorld
    /\ out \in {[exists |-> exists, entries |-> entries, op |-> "none",
                  result |-> [kind |-> "none", planets |-> <<>>]] :
                    exists \in BOOLEAN,
                    \* the keys a planet entry of the file gives; sync_untracked
                    \* is a key the spec names and Planet does not declare
                    entries \in UNION {[1..n ->
                        {required \cup optional :
                            required \in SUBSET {"name", "path", "worktree_base"},
                            optional \in {{}, {"env"}, {"description", "windows"},
                                          {"sync_untracked"}}}] : n \in 0..MaxPlanets}}

\* load_config on every list of planet entries, scaffold_planet next to it
ConfigSpec == ConfigInit /\ [][LoadConfig \/ ScaffoldPlanet]_vars

\* the repository's .gitignore: absent, committed or untracked, with any lines
IgnoreInit ==
    /\ InitWorld
    /\ out \in {[kind |-> kind, lines |-> lines, applied |-> 0,
                  result |-> [exists |-> FALSE, lines |-> <<>>]] :
                    kind \in {"absent", "committed", "untracked"},
                    lines \in UNION {[1..n -> {".orbit/", "node_modules/", ".env"}] :
                                       n \in 0..MaxIgnoreLines}}

\* launch up to the session's windows, seen from the worktree's .gitignore
IgnoreSpec == IgnoreInit /\ [][LaunchWorktreeFiles]_vars

\* a branch that exists locally, on the remote, on both or nowhere; with and
\* without a remote, an explicit base and a default branch to detect
BranchInit ==
    /\ InitWorld
    /\ out \in {[branch |-> "feat", local_exists |-> local_exists, remote |-> remote,
                  remote_has |-> remote_has, base |-> base, default |-> default,
                  fetch_ok |-> fetch_ok, applied |-> 0, detected |-> FALSE,
                  passed |-> "None", has_branch |-> local_exists,
                  first |-> "none", worktree |-> "none",
                  result |-> [kind |-> "none", fetched |-> FALSE, start |-> <<>>]] :
                    local_exists \in BOOLEAN,
                    remote \in {"None", "origin", "upstream"},
                    remote_has \in BOOLEAN,
                    base \in {"None", "base-branch"},
                    default \in {"None", "main"},
                    fetch_ok \in BOOLEAN}

\* the worktree command of launch for every such repository, and of a second
\* launch of the branch after the orbit of the first was destroyed
BranchSpec == BranchInit /\ [][LaunchCreateWorktree \/ DestroyOrbit]_vars

\* declared windows with none to four panes, with and without a command, two
\* of them possibly of one name; sessions that count from 0 or from 1
TmuxInit ==
    /\ InitWorld
    /\ out \in {[windows |-> windows, base |-> base, pane_base |-> pane_base,
                  op |-> "none", result |-> [cmds |-> <<>>, raised |-> FALSE]] :
                    base \in 0..1, pane_base \in 0..1,
                    windows \in UNION {[1..k ->
                        {[name |-> name, command |-> command,
                          panes |-> [i \in 1..n |->
                                       [name |-> <<"p0", "p1", "p2", "p3", "p4">>[i],
                                        command |-> IF i % 2 = 1 THEN "cmd" ELSE "None",
                                        directory |-> IF i = 2 THEN "sub" ELSE "."]]] :
                            name \in {"a", "b"}, command \in {"None", "run"},
                            n \in 0..4}] : k \in 0..MaxWindows}}

\* setup_windows and setup_panes on every such list of windows
TmuxSpec == TmuxInit /\ [][SetupWindows \/ SetupPanes]_vars

\* planets at the repository, at a symlink to it, below it, below the home
\* directory and elsewhere; working directories inside and outside of them
PlanetInit ==
    /\ InitWorld
    /\ out \in {[cwd |-> cwd, planets |-> planets, op |-> "none",
                  result |-> [kind |-> "none", planet |-> 0, listed |-> <<>>]] :
                    cwd \in {<<Names.RepoRoot>>,
                             <<Names.RepoRoot, Names.Packages, Names.Api>>,
                             <<Names.RepoLink, Names.Packages>>,
                             <<Names.Packages, Names.Api>>,
                             <<Names.Api>>},
                    planets \in UNION {[1..n ->
                        {<<Names.RepoRoot>>, <<Names.RepoLink>>,
                         <<Names.RepoRoot, Names.Packages>>,
                         << <<"~">>, Names.Packages>>,
                         <<Names.Packages>>}] : n \in 0..MaxPlanets}}

\* detect_planet on every working directory and list of planets
PlanetSpec == PlanetInit /\ [][DetectPlanet \/ LaunchUnmatched]_vars

\* a State of up to two orbits, stored under their names or under other
\* keys, with and without ports, created at a whole second or not, in UTC, in
\* another zone or naive; the path holds no file, an empty State or an orbit
RoundTripInit ==
    /\ InitWorld
    /\ out \in {[state |-> st, file |-> file, op |-> "none", loaded |-> EmptyState] :
           st \in UNION {[keys ->
               {[name |-> name, planet |-> PlanetSlug, branch |-> Feat,
                 worktree |-> WorktreePath(name), tmux_session |-> name,
                 ports |-> ports, created_at |-> created_at] :
                   name \in {feat, demo},
                   ports \in {[p \in {} |-> 0], [p \in {80} |-> 3000],
                              [p \in {80, 3000} |-> p + 1]},
                   created_at \in {[second |-> 0, microsecond |-> 0, tzinfo |-> "utc"],
                                   [second |-> 1, microsecond |-> 5, tzinfo |-> "+02:00"],
                                   [second |-> 1, microsecond |-> 0, tzinfo |-> "None"]}}] :
               keys \in SUBSET {feat, demo}},
           file \in {[exists |-> FALSE, text |-> <<>>],
                     [exists |-> TRUE, text |-> json_dump(EmptyState)],
                     [exists |-> TRUE,
                      text |-> json_dump([k \in {demo} |->
                          model_dump_json(
                              [name |-> demo, planet |-> PlanetSlug, branch |-> MainBranch,
                               worktree |-> WorktreePath(demo), tmux_session |-> demo,
                               ports |-> [p \in {8080} |-> 8080],
                               created_at |-> [second |-> 2, microsecond |-> 0,
                                               tzinfo |-> "utc"]])])]}}

\* load_state on the path as it is found, and save_state followed by load_state
RoundTripSpec == RoundTripInit /\ [][SaveState \/ LoadState]_vars

(***************************************************************************)
(* Properties                                                              *)
(***************************************************************************)
feat2 == <<"f", "e", "a", "t", "-", "2">>

feat3 == <<"f", "e", "a", "t", "-", "3">>

\* the slug the branches of this model are expected to get
ExpectedSlug(b) == IF b = Feat THEN feat ELSE b

\* '<slug>-n' written out
Suffixed(slug, n) == slug \o <<"-", <<"0","1","2","3","4","5","6","7","8","9">>[n + 1]>>

IsLaunch(l) == l.op = "launch"

IsDestroy(l) == l.op = "destroy"

\* the launch got as far as resolving its orbit name
Resolved(l) == IsLaunch(l) /\ l.name # <<>>

\* C1: a launch without an explicit name works under slugify(branch) when State
\* has no record of that name, and otherwise under '<slug>-n' for the smallest
\* n >= 2 that State has no record of; a launch that succeeds records the
\* orbit under that name.
C1_UnnamedLaunchName ==
    [][ (Resolved(last') /\ last'.nameArg = <<>>) =>
          LET slug == ExpectedSlug(last'.branch[1])
              nm   == last'.name[1]
          IN  /\ slug \notin DOMAIN stateFile => nm = slug
              /\ slug \in DOMAIN stateFile =>
                   \E n \in 2..(MaxOrbits + 1) :
                       /\ nm = Suffixed(slug, n)
                       /\ nm \notin DOMAIN stateFile
                       /\ \A m \in 2..(n - 1) : Suffixed(slug, m) \in DOMAIN stateFile
              /\ last'.outcome = "ok" =>
                   nm \in DOMAIN stateFile' /\ stateFile'[nm].name = nm ]_vars

\* C1 witness: with feat and feat-2 recorded, an unnamed launch of branch Feat
\* has succeeded as feat-3
C1_Witness ==
    /\ IsLaunch(last) /\ last.nameArg = <<>> /\ last.outcome = "ok"
    /\ last.branch = <<Feat>> /\ last.name = <<feat3>>
    /\ {feat, feat2, feat3} \subseteq DOMAIN stateFile

\* C2: a launch with an explicit name that State already records is rejected,
\* as "already exists" when a session of that name is live and as "stale" when
\* none is; it creates no worktree and no session, leaves State and the state
\* file as they were, and keeps the explicit name.
C2_ExplicitCollisionRejected ==
    [][ (Resolved(last') /\ last'.nameArg # <<>>
           /\ last'.nameArg[1] \in DOMAIN stateFile) =>
          /\ last'.outcome =
               (IF last'.nameArg[1] \in sessions THEN "already_exists" ELSE "stale")
          /\ last'.name = last'.nameArg
          /\ stateFile' = stateFile /\ state' = stateFile /\ ~last'.saved
          /\ sessions' = sessions /\ worktrees' = worktrees ]_vars

\* C2 witness: a launch --name demo was rejected as stale: demo is recorded
\* and has no session
C2_Witness ==
    /\ IsLaunch(last) /\ last.nameArg = <<demo>> /\ last.outcome = "stale"
    /\ demo \in DOMAIN stateFile /\ demo \notin sessions

\* C3: a launch that fails at any step before State is persisted leaves the
\* in-memory State and the state file with the orbits they held before.
C3_FailedLaunchKeepsState ==
    [][ (IsLaunch(last') /\ last'.outcome # "ok" /\ last'.step # "attach") =>
          stateFile' = stateFile /\ state' = stateFile /\ ~last'.saved ]_vars

\* C3 witness: a launch failed in the window/pane setup while State held
\* another orbit
C3_Witness ==
    /\ IsLaunch(last) /\ last.step = "setup_windows" /\ last.outcome = "error"
    /\ DOMAIN stateFile # {} /\ last.name[1] \notin DOMAIN stateFile
    /\ state = stateFile

\* C4: a destroy of a recorded orbit ends with the orbit removed from State and
\* the state file written, whatever cleanup step fails; only a refused
\* confirmation keeps the record.
C4_DestroyAlwaysRemovesRecord ==
    [][ (IsDestroy(last') /\ last'.name[1] \in DOMAIN stateFile
           /\ last'.outcome # "aborted") =>
          last'.name[1] \notin DOMAIN stateFile' /\ last'.saved ]_vars

\* C5: when the worktree exists and get_main_repo_path or remove_worktree
\* fails with WorktreeError, destroy only warns: it removes the orbit from
\* State, persists State and ends successfully.
C5_RemovalFailureIsWarning ==
    [][ (IsDestroy(last')
           /\ last'.worktree \in {"get_main_repo_path", "remove_worktree"}) =>
          /\ last'.outcome = "ok" /\ last'.saved
          /\ DOMAIN stateFile' = DOMAIN stateFile \ {last'.name[1]}
          /\ \A n \in DOMAIN stateFile' : stateFile'[n] = stateFile[n]
          /\ state' = stateFile'
          /\ worktrees' = worktrees ]_vars

\* C5 witness: remove_worktree failed, the worktree is still on disk and the
\* record is gone
C5_Witness ==
    /\ IsDestroy(last) /\ last.worktree = "remove_worktree" /\ last.outcome = "ok"
    /\ PathExists(WorktreePath(last.name[1]))
    /\ last.name[1] \notin DOMAIN stateFile

C7_DirtyNeedsConfirmation ==
    [][ IsDestroy(last') =>
          /\ last'.confirm = "refused" =>
               /\ last'.outcome = "aborted" /\ ~last'.saved
               /\ worktrees' = worktrees
               /\ stateFile[last'.name[1]].worktree \in DOMAIN worktrees'
               /\ stateFile' = stateFile /\ state' = stateFile
               /\ last'.name[1] \in DOMAIN stateFile'
          /\ worktrees' # worktrees => last'.confirm \in {"clean", "confirmed"} ]_vars

\* C7 witness: the confirmation was refused; record and worktree are kept
C7_Witness ==
    /\ IsDestroy(last) /\ last.confirm = "refused" /\ last.outcome = "aborted"
    /\ last.name[1] \in DOMAIN stateFile
    /\ PathExists(stateFile[last.name[1]].worktree)

\* C8: a destroy of a name State has no record of fails with "No orbit named"
\* and does nothing: no kill, no removal, State and the state file not written.
C8_UnknownNameNoEffect ==
    [][ (IsDestroy(last') /\ last'.name[1] \notin DOMAIN stateFile) =>
          /\ last'.outcome = "not_found"
          /\ last'.session = "none" /\ last'.worktree = "none" /\ ~last'.saved
          /\ sessions' = sessions /\ worktrees' = worktrees
          /\ stateFile' = stateFile /\ state' = stateFile ]_vars

\* C8 witness: destroy was refused for a name without a record although a
\* session and a worktree of that name exist
C8_Witness ==
    /\ IsDestroy(last) /\ last.outcome = "not_found"
    /\ last.name[1] \in sessions
    /\ PathExists(WorktreePath(last.name[1]))

C10_NoRollback ==
    [][ (IsLaunch(last')
           /\ last'.step \in {"sync_untracked", "new_session", "set_option",
                              "set_environment", "setup_windows"}) =>
          LET n == last'.name[1]
          IN  /\ WorktreePath(n) \in DOMAIN worktrees'
              /\ worktrees'[WorktreePath(n)] = last'.branch[1]
              /\ last'.step \in {"set_option", "set_environment", "setup_windows"}
                   => n \in sessions'
              /\ n \notin DOMAIN state' /\ n \notin DOMAIN stateFile' ]_vars

\* C10 witness: the window/pane setup failed; worktree and session exist and
\* State has no record
C10_Witness ==
    /\ IsLaunch(last) /\ last.step = "setup_windows"
    /\ PathExists(WorktreePath(last.name[1]))
    /\ last.name[1] \in sessions
    /\ last.name[1] \notin DOMAIN stateFile

\* an invocation opens the state file for writing in this step
Saves(p) == procs[p].pc = "saving" /\ procs'[p].pc = "writing"

SomeSaving == \E p \in Procs : procs[p].pc \in {"saving", "writing"}

\* C11: nothing locks the state file: a save writes the State its invocation
\* loaded, with that invocation's own change, over whatever the file holds; what
\* another invocation saved since the load is gone from the file while the
\* sessions and worktrees stay as they are, so a launched orbit can be missing
\* from the file with its session live and its worktree on disk.
C11_LaterSaveOverwrites ==
    [][ \A p \in Procs : Saves(p) =>
          /\ stateFile' = procs[p].state
          /\ \A n \in DOMAIN stateFile \ DOMAIN procs[p].state :
                 n \notin DOMAIN stateFile'
          /\ \A n \in DOMAIN procs[p].state \ DOMAIN stateFile :
                 n \in DOMAIN stateFile'
          /\ sessions' = sessions /\ worktrees' = worktrees ]_vars

\* C11 witness: both invocations have saved, the later one over a file that
\* another had written since its load; feat-2 is live with its worktree on
\* disk and the complete state file has no entry for it
C11_Witness ==
    /\ last.op = "save" /\ last.outcome = "overtaken"
    /\ \A p \in Procs : procs[p].pc = "idle"
    /\ pending = 0
    /\ \A k \in DOMAIN stateFile : stateFile[k].name = k
    /\ feat2 \in sessions /\ PathExists(WorktreePath(feat2))
    /\ feat2 \notin DOMAIN stateFile

\* C12: when an invocation is stopped inside save_state, the state file parses
\* and load_state returns a complete State from it.
C12_SaveIsAtomic ==
    (last.op = "stop" /\ ~SomeSaving) => load_state(FileText).ok

\* C13: in the State of every invocation each key equals the name field of the
\* Orbit stored under it.
C13_KeysEqualNames ==
    \A p \in Procs : \A k \in DOMAIN procs[p].state : procs[p].state[k].name = k


\* the launch was refused by git or by tmux over a name State has no record of
ToolCollision(l) ==
    /\ Resolved(l) /\ l.name[1] \notin DOMAIN stateFile
    /\ \/ l.step = "create_worktree"
            /\ GitRefusesAdd(WorktreePath(l.name[1]), l.branch[1])
       \/ l.step = "new_session" /\ TmuxRefusesNew(l.name[1])

\* C14: a destroy of an orbit name that a failed launch left a session or a
\* worktree of, without a record in State, kills that session and removes that
\* worktree.
C14_DestroyRecoversLeftovers ==
    [][ (IsDestroy(last') /\ last'.name[1] \notin DOMAIN stateFile
           /\ (last'.name[1] \in sessions
                 \/ WorktreePath(last'.name[1]) \in DOMAIN worktrees)) =>
          /\ last'.name[1] \notin sessions'
          /\ WorktreePath(last'.name[1]) \notin DOMAIN worktrees' ]_vars

\* C15: a launch that git or tmux refuses because the name is taken in the
\* tool's own namespace, with no record in State, ends as one of launch's own
\* name conflicts, "already exists" or "stale".
C15_ToolCollisionTranslated ==
    [][ ToolCollision(last') => last'.outcome \in {"already_exists", "stale"} ]_vars

\* C16: with ports declared by the planet, a successful launch persists an
\* Orbit whose ports map is what assign_ports gives for the declared ports and
\* the ports claimed in State: an entry for every declared port.
C16_PortsAssigned ==
    [][ (IsLaunch(last') /\ last'.outcome = "ok" /\ Len(DeclaredPorts) > 0) =>
          LET o == stateFile'[last'.name[1]]
              a == assign_ports(DeclaredPorts, all_ports(stateFile), {})
          IN  /\ DOMAIN o.ports = {DeclaredPorts[i] : i \in DOMAIN DeclaredPorts}
              /\ \A d \in DOMAIN o.ports : o.ports[d] = a[d] ]_vars

\* C17: list prints one row for every State entry and no other, with status
\* "running" exactly when a session of the orbit's name exists at that moment
\* and "stale" otherwise, and leaves State, the state file, the sessions and
\* the worktrees as they were.
C17_ListReportsLiveness ==
    [][ last'.op = "list" =>
          /\ Len(out') = Cardinality(DOMAIN stateFile)
          /\ \A n \in DOMAIN stateFile :
                 Cardinality({i \in DOMAIN out' : out'[i].name = n}) = 1
          /\ \A i \in DOMAIN out' :
                 /\ out'[i].name \in DOMAIN stateFile
                 /\ out'[i].branch = stateFile[out'[i].name].branch
                 /\ out'[i].planet = stateFile[out'[i].name].planet
                 /\ out'[i].status =
                      (IF out'[i].name \in sessions THEN "running" ELSE "stale")
          /\ stateFile' = stateFile /\ state' = stateFile
          /\ sessions' = sessions /\ worktrees' = worktrees ]_vars

\* C17 witness: list has printed a running and a stale orbit
C17_Witness ==
    /\ last.op = "list"
    /\ \E i, j \in DOMAIN out : out[i].status = "running" /\ out[j].status = "stale"


\* C18: with prefix matching, a name that is exactly the name of an orbit
\* resolves to that orbit without a prompt, whatever other orbits State holds.
C18_ExactNameResolvesDirectly ==
    (out.result.kind # "none" /\ out.prefix_match /\ out.name # <<>>
       /\ \E i \in DOMAIN out.orbits : out.orbits[i] = out.name[1]) =>
      /\ out.result.kind = "ok"
      /\ out.result.value = out.name
      /\ ~out.result.prompted

\* C19: without a name, resolve_name fails with "No active orbits" on an empty
\* State, returns the only orbit with a notice and no prompt, and with several
\* orbits prompts and returns the orbit at the position answered, counted from
\* 1 in State order, or fails with "Invalid selection" outside 1..count; what
\* it returns without a name or with prefix matching is a key of State.
C19_ResolveWithoutName ==
    /\ (out.result.kind # "none" /\ out.name = <<>>) =>
         /\ Len(out.orbits) = 0 =>
              out.result = ResolveResult("No active orbits", <<>>, FALSE, FALSE)
         /\ Len(out.orbits) = 1 =>
              out.result = ResolveResult("ok", <<out.orbits[1]>>, FALSE, TRUE)
         /\ Len(out.orbits) > 1 =>
              /\ out.result.prompted
              /\ out.idx \in 1..Len(out.orbits) =>
                   out.result.kind = "ok"
                     /\ out.result.value = <<out.orbits[out.idx]>>
              /\ out.idx \notin 1..Len(out.orbits) =>
                   out.result.kind = "Invalid selection"
    /\ (out.result.kind = "ok" /\ (out.name = <<>> \/ out.prefix_match)) =>
         \E i \in DOMAIN out.orbits : out.result.value = <<out.orbits[i]>>

\* C19 witness: three orbits, no name, the answer 3: the third orbit is returned
C19_Witness ==
    /\ out.name = <<>> /\ Len(out.orbits) = 3 /\ out.idx = 3
    /\ out.result.kind = "ok" /\ out.result.prompted
    /\ out.result.value = <<out.orbits[3]>>

\* C20: slugify applied to its own output returns that output.
C20_SlugifyIdempotent ==
    out.applied = 2 => out.again = out.slug

\* the slug has neither a hyphen at either end nor two hyphens in a row
HyphensInside(s) ==
    /\ Len(s) > 0 => s[1] # "-" /\ s[Len(s)] # "-"
    /\ \A i \in 1..(Len(s) - 1) : ~(s[i] = "-" /\ s[i + 1] = "-")

\* C21: the output of slugify is at most 40 characters long, is made of
\* [a-z0-9-] only, and has no leading, trailing or doubled hyphen.
C21_SlugWellFormed ==
    out.applied >= 1 =>
        /\ Len(out.slug) <= SlugMaxLen
        /\ \A i \in 1..Len(out.slug) : out.slug[i] \in SlugChars
        /\ HyphensInside(out.slug)


\* a name that starts with a dot
IsDotName(name) == name # <<>> /\ Head(name) = "."

\* the directories above an untracked file
DirsAbove(file_rel) == {SubSeq(file_rel, 1, i) : i \in 1..(Len(file_rel) - 1)}

\* a pattern with * or ? in it
HasWildcard(pattern) == \E i \in 1..Len(pattern) : pattern[i] \in {"*", "?"}

\* the paths the sync has mirrored: listed in the result or made a symlink
Mirrored == Range(out.result.synced) \cup DOMAIN out.result.links

\* C22: with the pattern .* alone, an untracked dotfile at the root is
\* mirrored, and an untracked dotfile below plain (non-dot) directories is not
\* mirrored and no directory is made for it in the worktree.
C22_NestedDotfileNotMirrored ==
    (out.applied = 1 /\ out.patterns = {Names.DotStar}) =>
        /\ (<<Names.DotEnv>> \in Range(out.entries) /\ <<Names.DotEnv>> \notin out.existing)
              => <<Names.DotEnv>> \in Mirrored
        /\ \A f \in Range(out.entries) :
              (/\ Len(f) > 1
               /\ IsDotName(f[Len(f)])
               /\ \A d \in DirsAbove(f) : ~IsDotName(d[Len(d)]))
                 => /\ f \notin Mirrored
                    /\ DirsAbove(f) \cap out.result.dirs = {}

\* C23: a dot-directory is symlinked only when a wildcard-free pattern names
\* it exactly; patterns with wildcards, such as .*, never symlink one.
C23_DotDirectoryNeedsExactPattern ==
    out.applied = 1 =>
        \A f \in Range(out.entries) : \A d \in DirsAbove(f) :
            (IsDotName(d[Len(d)]) /\ d \in Mirrored)
               => \E pattern \in out.patterns :
                     ~HasWildcard(pattern) /\ pattern = d[Len(d)]

\* the components of an untracked path that some pattern matches
MatchingDepths(file_rel, patterns) ==
    {i \in 1..Len(file_rel) : \E pattern \in patterns : fnmatch(file_rel[i], pattern)}

Shallowest(file_rel, patterns) ==
    SubSeq(file_rel, 1,
           CHOOSE i \in MatchingDepths(file_rel, patterns) :
               \A j \in MatchingDepths(file_rel, patterns) : i <= j)

Count(seq, x) == Cardinality({i \in DOMAIN seq : seq[i] = x})

IsBelow(path, dir) == Len(path) > Len(dir) /\ SubSeq(path, 1, Len(dir)) = dir

LiveHeads ==
    IF out.live.returncode # 0 THEN <<>>
    ELSE SelectSeq(out.live.stdout,
                   LAMBDA l : Len(l) = 3 /\ l[1] = "ref: refs/heads/" /\ l[3] = "\tHEAD")

\* the cached symref names a branch of the remote that was asked
CacheKnown ==
    /\ out.cached.returncode = 0
    /\ \E b \in {"main", "dev"} : out.cached.stdout = CachedRef(out.remote, b)

\* C25: detect_default_branch returns the live remote HEAD when the remote
\* names one, else the cached symref of that remote, else the first of main,
\* master, develop that exists locally, else None; the live answer wins over
\* a cached symref that disagrees.
C25_DefaultBranchPriority ==
    out.applied = 1 =>
        IF LiveHeads # <<>>
        THEN out.result = [found |-> TRUE, branch |-> <<LiveHeads[1][2]>>]
        ELSE IF CacheKnown
        THEN out.result = [found |-> TRUE, branch |-> <<out.cached.stdout[4]>>]
        ELSE IF \E b \in {"main", "master", "develop"} : b \in out.local
        THEN /\ out.result.found
             /\ \/ out.result.branch = <<"main">> /\ "main" \in out.local
                \/ out.result.branch = <<"master">> /\ {"main"} \cap out.local = {}
                                                    /\ "master" \in out.local
                \/ out.result.branch = <<"develop">>
                      /\ {"main", "master"} \cap out.local = {}
                      /\ "develop" \in out.local
        ELSE ~out.result.found

\* the remote says trunk while the stale cached symref says main
C25_Witness ==
    /\ out.applied = 1
    /\ out.remote = "origin"
    /\ out.live = [returncode |-> 0, stdout |-> <<SymrefLine("trunk"), ShaLine>>]
    /\ out.cached = [returncode |-> 0, stdout |-> CachedRef("origin", "main")]
    /\ out.result = [found |-> TRUE, branch |-> <<"trunk">>]

\* the ports the call may not hand out: claimed in State or bound on loopback
Taken == out.claimed \cup out.bound

\* the ports chosen for the first k entries of the declared list, each the
\* lowest port from its declared port up that is neither taken nor chosen
RECURSIVE ChosenUpTo(_)
ChosenUpTo(k) ==
    IF k = 0 THEN {}
    ELSE LET before == ChosenUpTo(k - 1)
             free == {c \in out.declared[k]..(out.declared[k] + Cardinality(Taken) + k) :
                        c \notin Taken \cup before}
         IN  before \cup {CHOOSE c \in free : \A e \in free : c <= e}

\* the last entry of the declared list that names this port
LastEntry(d) ==
    CHOOSE i \in DOMAIN out.declared :
        out.declared[i] = d /\ \A j \in DOMAIN out.declared : out.declared[j] = d => j <= i

\* what is common to the claim as stated and as amended: a value for every
\* declared port, pairwise distinct, not below the declared port, not taken
PortsSound ==
    /\ DOMAIN out.result = Range(out.declared)
    /\ \A d \in DOMAIN out.result :
          /\ out.result[d] >= d
          /\ out.result[d] \notin Taken
    /\ \A d, e \in DOMAIN out.result : d # e => out.result[d] # out.result[e]

\* C26 as stated: every value is the first port from its declared port up
\* that is neither in the claimed set nor bound on loopback.
C26_FirstUntaken ==
    out.applied = 1 =>
        /\ PortsSound
        /\ \A d \in DOMAIN out.result : \A c \in d..(out.result[d] - 1) : c \in Taken

\* C26: assign_ports returns a value for every declared port; the values are
\* pairwise distinct, none is below its declared port, none is claimed or
\* bound, and each is the first port from its declared port up that is
\* neither claimed, nor bound, nor chosen for an earlier entry of the list.
C26_FirstFree ==
    out.applied = 1 =>
        /\ PortsSound
        /\ \A d \in DOMAIN out.result :
              /\ out.result[d] \in ChosenUpTo(LastEntry(d))
              /\ out.result[d] \notin ChosenUpTo(LastEntry(d) - 1)
              /\ \A c \in d..(out.result[d] - 1) :
                    c \in Taken \cup ChosenUpTo(LastEntry(d) - 1)

\* 3000 is bound, so 3000 gets 3001, and 3001, free itself, moves on to 3002
C26_Witness ==
    /\ out.applied = 1
    /\ out.declared = <<3000, 3001>>
    /\ out.claimed = {}
    /\ out.bound = {3000}
    /\ out.result[3000] = 3001
    /\ out.result[3001] = 3002

\* C27: a planet entry is valid exactly when it gives name and path:
\* load_config accepts a file of such entries and fails on any other, and
\* scaffold_planet builds a planet from name and path alone, the other
\* attributes at their defaults.
C27_NameAndPathSuffice ==
    /\ (out.op = "load_config" /\ out.exists) =>
          (out.result.kind = "ok" <=>
              \A i \in DOMAIN out.entries : {"name", "path"} \subseteq out.entries[i])
    /\ out.op = "scaffold_planet" =>
          /\ out.result.kind = "ok"
          /\ out.result.planets[1].env = "{}"
          /\ out.result.planets[1].windows = "[]"
          /\ out.result.planets[1].description = "None"

\* C28: after a launch the worktree's ignore file has a .orbit/ line whatever
\* the repository's ignore file held, and a file that had the line already
\* is left as it was.
C28_IgnoreFileHasOrbit ==
    out.applied = 1 =>
        /\ out.result.exists
        /\ Count(out.result.lines, ".orbit/") >= 1
        /\ (out.kind # "absent" /\ Count(out.lines, ".orbit/") >= 1)
              => out.result.lines = out.lines

OnRemote == out.remote # "None" /\ out.remote_has

\* C30: the branch is resolved in this order: a local branch is checked out;
\* else a branch of the given remote is fetched and a local branch is made
\* from remote/branch; else a new branch is made from the base when there is
\* one and from HEAD otherwise.  launch detects a base only for a new branch
\* with no explicit base and a remote, so the base never reaches the worktree
\* of a branch that exists locally or on the remote.
C30_BranchResolution ==
    out.applied = 1 =>
        /\ out.local_exists =>
              out.result = [kind |-> "checkout", fetched |-> FALSE,
                            start |-> <<out.branch>>]
        /\ (~out.local_exists /\ OnRemote /\ out.fetch_ok) =>
              out.result = [kind |-> "track", fetched |-> TRUE,
                            start |-> <<out.remote, "/", out.branch>>]
        /\ (~out.local_exists /\ OnRemote /\ ~out.fetch_ok) =>
              out.result.kind = "WorktreeError"
        /\ (~out.local_exists /\ ~OnRemote) =>
              /\ out.result.kind = "new" /\ ~out.result.fetched
              /\ out.result.start =
                    IF out.base # "None" THEN <<out.base>>
                    ELSE IF out.remote # "None" /\ out.default # "None"
                         THEN <<out.default>>
                    ELSE <<>>
        /\ out.detected <=>
              (~out.local_exists /\ ~OnRemote /\ out.base = "None"
                 /\ out.remote # "None")

\* an explicit base is given for a branch that exists on the remote only: the
\* branch is fetched and made from origin/feat
C30_Witness ==
    /\ out.applied = 1
    /\ ~out.local_exists /\ out.remote = "origin" /\ out.remote_has
    /\ out.base = "base-branch" /\ out.fetch_ok
    /\ out.result.kind = "track"
    /\ out.result.start = <<"origin", "/", "feat">>

\* the commands of the call that make or name a window, in order
Made ==
    SelectSeq(out.result.cmds, LAMBDA c : c.cmd \in {"rename-window", "new-window"})

\* C31: setup_windows with k >= 1 declared windows names the session's first
\* window, at its actual index, after the first declared one and makes a new
\* window for each further one, in declared order; a window with panes gets
\* its panes and its own command is not sent, a window without panes gets its
\* command when it has one; the call ends by selecting the first window.
\* With no declared window no command is issued.
C31_WindowsReplicated ==
    out.op = "setup_windows" =>
        IF out.windows = <<>> THEN out.result.cmds = <<>>
        ELSE /\ ~out.result.raised
             /\ Len(Made) = Len(out.windows)
             /\ Made[1] = Cmd("rename-window", out.base, "", -1, out.windows[1].name)
             /\ \A i \in 2..Len(out.windows) :
                   Made[i] = Cmd("new-window", -1, "", -1, out.windows[i].name)
             /\ out.result.cmds[Len(out.result.cmds)]
                   = Cmd("select-window", out.base, "", -1, "")
             /\ \A i \in DOMAIN out.windows :
                   LET w == out.windows[i]
                   IN  /\ (w.panes = <<>> /\ w.command # "None") =>
                             Cmd("send-keys", -1, w.name, -1, w.command)
                                \in Range(out.result.cmds)
                       /\ \A j \in DOMAIN w.panes :
                             Cmd("select-pane", -1, w.name, out.pane_base + j - 1,
                                 w.panes[j].name) \in Range(out.result.cmds)

\* the place of a command of setup_panes in the order of its steps
StepOf(c) ==
    IF c.cmd = "split-window" THEN 1
    ELSE IF c.cmd = "select-layout" THEN 2
    ELSE IF c.cmd = "set-window-option" THEN 3
    ELSE IF c.cmd = "list-panes" THEN 4
    ELSE 5

\* C32: setup_panes with n >= 1 panes splits n - 1 times, each time in the
\* directory of the pane it makes; then selects the layout for n (none for
\* one pane, even-horizontal for 2, main-vertical for 3, tiled from 4 on);
\* turns the pane titles on only for n > 1; then titles pane base + i with
\* the i-th name and sends its command exactly when it has one.  With no pane
\* it issues no command.
C32_PanesReplicated ==
    out.op = "setup_panes" =>
        LET panes == out.windows[1].panes
            n == Len(panes)
            cmds == out.result.cmds
            Of(kind) == SelectSeq(cmds, LAMBDA c : c.cmd = kind)
        IN  IF n = 0 THEN cmds = <<>>
            ELSE /\ \A c \in Range(cmds) : c.window = out.windows[1].name
                 /\ \A a, b \in DOMAIN cmds : a < b => StepOf(cmds[a]) <= StepOf(cmds[b])
                 /\ Len(Of("split-window")) = n - 1
                 /\ \A i \in 1..(n - 1) :
                       Of("split-window")[i].arg = panes[i + 1].directory
                 /\ Of("select-layout") =
                       IF n = 1 THEN <<>>
                       ELSE <<Cmd("select-layout", -1, out.windows[1].name, -1,
                                  IF n = 2 THEN "even-horizontal"
                                  ELSE IF n = 3 THEN "main-vertical" ELSE "tiled")>>
                 /\ Len(Of("set-window-option")) = IF n > 1 THEN 2 ELSE 0
                 /\ Len(Of("select-pane")) = n
                 /\ \A i \in 1..n :
                       /\ Of("select-pane")[i].pane = out.pane_base + i - 1
                       /\ Of("select-pane")[i].arg = panes[i].name
                       /\ Count(Of("send-keys"),
                                Cmd("send-keys", -1, out.windows[1].name,
                                    out.pane_base + i - 1, panes[i].command))
                             = IF panes[i].command # "None" THEN 1 ELSE 0
                 /\ Len(Of("send-keys"))
                       = Cardinality({i \in 1..n : panes[i].command # "None"})

\* four panes in a session that counts panes from 1: three splits, the tiled
\* layout, and titles for the panes 1 to 4
C32_Witness ==
    /\ out.op = "setup_panes"
    /\ out.pane_base = 1
    /\ Len(out.windows[1].panes) = 4
    /\ Len(out.result.cmds) = 13
    /\ out.result.cmds[4].arg = "tiled"
    /\ out.result.cmds[12] = Cmd("send-keys", -1, out.windows[1].name, 3, "cmd")
    /\ out.result.cmds[13] = Cmd("select-pane", -1, out.windows[1].name, 4, "p3")

\* where a configured path or a working directory really is
Place(path) ==
    IF path # <<>> /\ path[1] \in {Names.RepoLink, <<"~">>}
    THEN <<Names.RepoRoot>> \o Tail(path) ELSE path

\* the planets that hold the working directory
Holding ==
    {i \in DOMAIN out.planets :
        /\ Len(Place(out.planets[i])) <= Len(out.cwd)
        /\ \A k \in 1..Len(Place(out.planets[i])) :
              Place(out.planets[i])[k] = Place(out.cwd)[k]}

\* C33: detect_planet returns the first planet, in configuration order, whose
\* resolved path is the resolved working directory or an ancestor of it; with
\* no such planet it raises an error that lists every configured planet, and
\* a launch then creates nothing and leaves State as it was.
C33_FirstPlanetWins ==
    /\ out.op \in {"detect_planet", "launch"} =>
          IF Holding = {}
          THEN out.result.kind = "ConfigError" /\ out.result.listed = out.planets
          ELSE /\ out.result.kind = "ok"
               /\ out.result.planet \in Holding
               /\ \A i \in Holding : out.result.planet <= i
    /\ out.op = "launch" =>
          /\ Holding = {}
          /\ IsLaunch(last) /\ last.outcome = "error" /\ ~last.saved
          /\ state = EmptyState /\ stateFile = EmptyState
          /\ sessions = {} /\ DOMAIN worktrees = {}

\* the planet below the home directory comes before the planet at the
\* repository; from a directory in both, reached through the symlink, the
\* earlier one is returned
C33_Witness ==
    /\ out.op = "detect_planet"
    /\ out.cwd = <<Names.RepoLink, Names.Packages>>
    /\ out.planets = << << <<"~">>, Names.Packages>>, <<Names.RepoRoot>> >>
    /\ out.result.kind = "ok" /\ out.result.planet = 1

\* C34: save_state followed by load_state on the same path yields a State with
\* the same orbit names and, for each, the same name, planet, branch,
\* worktree, tmux_session, ports and created_at; no entry of the previous
\* file that is absent from the saved State survives; loading a missing file
\* yields the empty State.
C34_SaveLoadRoundTrip ==
    /\ out.op = "save_load" =>
          /\ DOMAIN out.loaded = DOMAIN out.state
          /\ \A k \in DOMAIN out.state :
                /\ out.loaded[k].name = out.state[k].name
                /\ out.loaded[k].planet = out.state[k].planet
                /\ out.loaded[k].branch = out.state[k].branch
                /\ out.loaded[k].worktree = out.state[k].worktree
                /\ out.loaded[k].tmux_session = out.state[k].tmux_session
                /\ DOMAIN out.loaded[k].ports = DOMAIN out.state[k].ports
                /\ \A p \in DOMAIN out.state[k].ports :
                      out.loaded[k].ports[p] = out.state[k].ports[p]
                /\ out.loaded[k].created_at = out.state[k].created_at
    /\ (out.op = "load_state" /\ ~out.file.exists) => DOMAIN out.loaded = {}

\* a State with orbit feat alone, with two ports and a creation time off the
\* whole second, was saved and loaded
C34_Witness ==
    /\ out.op = "save_load"
    /\ Len(out.file.text) = 3 /\ out.file.text[2].key = feat
    /\ DOMAIN out.file.text[2].value.ports = {<<8, 0>>, <<3, 0, 0, 0>>}
    /\ DOMAIN out.loaded = {feat}
    /\ out.loaded[feat].ports[3000] = 3001
    /\ out.loaded[feat].created_at.microsecond = 5

\* C35: every Orbit that launch writes to State has tmux_session equal to its
\* name and worktree equal to '<planet parent>/<planet dir name>.wt/<name>',
\* so two entries written by launch never share a session name or a worktree
\* path.
C35_SessionAndPathFromName ==
    /\ \A n \in DOMAIN stateFile :
          /\ stateFile[n].tmux_session = stateFile[n].name
          /\ stateFile[n].worktree = <<PlanetParent, PlanetDir \o ".wt", stateFile[n].name>>
    /\ \A n, m \in DOMAIN stateFile :
          n # m => /\ stateFile[n].tmux_session # stateFile[m].tmux_session
                   /\ stateFile[n].worktree # stateFile[m].worktree

\* C36: destroy kills the live session before it asks about uncommitted
\* changes: after a refused confirmation the orbit's record and worktree are
\* kept and no session of its name is left, so list reports the orbit as
\* stale and a launch under that explicit name meets the stale conflict.
C36_RefusedDestroyLeavesStale ==
    (IsDestroy(last) /\ last.confirm = "refused") =>
        /\ last.outcome = "aborted"
        /\ last.name[1] \in DOMAIN stateFile
        /\ PathExists(stateFile[last.name[1]].worktree)
        /\ ~session_exists(last.name[1])
        /\ ListStatus(stateFile[last.name[1]]) = "stale"
        /\ Collision(stateFile, last.name, sessions) = "stale"

\* the session of demo was live and has been killed by the destroy that the
\* user then refused
C36_Witness ==
    /\ IsDestroy(last) /\ last.confirm = "refused" /\ last.session = "killed"
    /\ last.name = <<demo>>
    /\ demo \in DOMAIN stateFile /\ demo \notin sessions
    /\ PathExists(WorktreePath(demo))

C40_BranchSurvivesDestroy ==
    /\ (out.applied >= 2 /\ out.first \in {"new", "track"}) => out.has_branch
    /\ (out.applied = 3 /\ out.first = "new") =>
          /\ out.result = [kind |-> "checkout", fetched |-> FALSE,
                           start |-> <<out.branch>>]
          /\ ~is_new_branch(out.has_branch, out.remote, out.remote_has)
          /\ ~out.detected
          /\ out.result.start # <<out.base>> /\ out.result.start # <<out.default>>

\* the branch was new and made from the explicit base; after the destroy the
\* second launch checks it out and the base is not used
C40_Witness ==
    /\ out.applied = 3 /\ out.first = "new" /\ out.worktree = "removed"
    /\ ~out.local_exists /\ out.base = "base-branch" /\ out.remote = "origin"
    /\ out.result.kind = "checkout" /\ out.result.start = <<"feat">>

====
